---- MODULE Spec2Model ----
(***************************************************************************)
(* Pi Lottery Miner (src/pi_lottery_miner.py): the telemetry core.         *)
(*                                                                         *)
(*   StatsState            the lock-guarded snapshot store                 *)
(*   get_bfgminer_hashrate_hps / query_cgminer_api   the daemon adapter    *)
(*   fetch_difficulty_and_height / _network_loop     the network fetcher   *)
(*   TouchApp._miner_loop / _sensors_loop / _ui_loop / stop                *)
(*   CpuMinerTail          the log-tail adapter                            *)
(*                                                                         *)
(* A Python None is the empty tuple, a present value v is <<v>>.           *)
(***************************************************************************)
EXTENDS Integers, Sequences, FiniteSets, TLC

VARIABLES
    \* ---- StatsState (STATS) ----
    lock,        \* StatsState.lock: NoOwner, or the thread holding it
    state,       \* StatsState.state: field name -> value
    utc,         \* datetime.utcnow(), counted in stamps
    \* ---- threads calling STATS.update / STATS.snapshot ----
    spc,         \* position of each caller inside its call
    skw,         \* the **kw of the update() a caller is in
    sres,        \* the bytes the snapshot() a reader is in has computed
    nupd,        \* update() calls started
    nsnap,       \* snapshot() calls started
    \* ---- history of the calls (not program state) ----
    hist,        \* the state as it stood when the latest update() returned
    retd,        \* per field, the newest value an update() that returned wrote
    atStart,     \* per reader, retd when its snapshot() was called
    \* ---- the daemon API (environment) and the adapter's poll ----
    daemon,      \* what the miner daemon's API socket answers to "summary"
    poll,        \* outcome of the latest get_bfgminer_hashrate_hps() call
    \* ---- TouchApp: configuration and control ----
    cfg,         \* CONFIG, as read from the process environment at import
    pc,          \* position of each task of the application
    stopFlag,    \* TouchApp._stop
    acc,         \* history: per attribute, the tasks that read it and that wrote it
    \* ---- hashrate loop ----
    now,         \* time.time(), in seconds
    nticks,      \* iterations of the hashrate loop so far
    lag,         \* seconds an iteration takes beyond its sleep (environment)
    graph_data,  \* TouchApp.graph_data: sequence of <<timestamp, value>>
    inserted,    \* history: every point the hashrate loop appended, in order
    miner_hps,   \* TouchApp.miner_hps
    miner_src,   \* TouchApp.miner_src
    \* ---- network loop ----
    diffEp,      \* what the difficulty endpoint answers (environment)
    heightEp,    \* what the height endpoint answers (environment)
    difficulty,  \* TouchApp.difficulty
    height,      \* TouchApp.height
    net_hps,     \* TouchApp.net_hps
    lastFetch,   \* history: the latest fetch_difficulty_and_height() call
    goodD,       \* history: the difficulty of the latest successful request
    goodH,       \* history: the height of the latest successful request
    \* ---- sensor loop ----
    thermal,     \* content of the thermal zone file (environment)
    cpu_temp,    \* TouchApp.cpu_temp
    \* ---- CpuMinerTail ----
    logExists,   \* whether the cpuminer log can be opened (environment)
    unread,      \* lines of the log after the reader's file position (the log closed: written since)
    tailStop,    \* CpuMinerTail.stop
    latest_hps,  \* CpuMinerTail.latest_hps
    tail_lock,   \* CpuMinerTail.lock: NoOwner, or the thread holding it
    tail_m,      \* _run's local m: the matched line whose rate is to be assigned
    matched,     \* history: the matched line whose rate was assigned last
    \* ---- calls of the pure functions and of the HTTP handler ----
    call,        \* the latest call: the function and its arguments
    ret,         \* what the latest call returned
    before,      \* the call before the latest, with what it returned
    \* ---- screen_power_therm_guard: threads and main ----
    gcfg,        \* the parsed arguments, and which devices the system has
    gpc,         \* position of the touch-idle thread, the temperature guard and main
    stop_flag,   \* stop_flag of the two threads
    \* ---- TempGuardThread ----
    consecutive_hot, \* run's local consecutive_hot
    polls,       \* history: what the get_cpu_temp_c() calls returned, oldest first
    poweroffs,   \* history: `systemctl poweroff` commands issued
    \* ---- TouchIdleThread ----
    gnow,        \* time.time(), in half seconds
    pending,     \* whether the input device is readable (a touch event waits)
    last_activity, \* run's local last_activity
    blanked,     \* run's local blanked
    dimmed,      \* run's local dimmed
    backlight,   \* what the backlight does: "on", "off" or "dim"
    touchAt,     \* history: when the latest touch event arrived, and when one was read last
    idleActs,    \* history: the calls of bl.off, bl.dim and bl.on with their times, oldest first
    \* ---- _ui_loop ----
    uil          \* the locals of the run of _ui_loop in progress

statsVars == <<lock, state, utc, spc, skw, sres, nupd, nsnap, hist, retd, atStart>>

adapterVars == <<daemon, poll>>

ctlVars == <<cfg, pc, stopFlag, acc>>

minerVars == <<now, nticks, lag, graph_data, inserted, miner_hps, miner_src>>

netVars == <<diffEp, heightEp, difficulty, height, net_hps, lastFetch, goodD, goodH>>

sensVars == <<thermal, cpu_temp>>

tailVars == <<logExists, unread, tailStop, latest_hps, tail_lock, tail_m, matched>>

appVars == <<ctlVars, minerVars, netVars, sensVars, tailVars>>

calcVars == <<call, ret, before>>

guardCtl == <<gcfg, gpc, stop_flag>>

tempVars == <<consecutive_hot, polls, poweroffs>>

touchVars == <<gnow, pending, last_activity, blanked, dimmed, backlight, touchAt, idleActs>>

guardVars == <<guardCtl, tempVars, touchVars>>

uiVars == <<uil>>

vars == <<statsVars, adapterVars, appVars, calcVars, guardVars, uiVars>>

(***************************************************************************)
(* Values                                                                  *)
(***************************************************************************)
None == <<>>

Some(v) == <<v>>

\* ---- bounds of the model ----
\* update() calls and snapshot() calls started in one behaviour
MaxUpdates == 2

MaxSnapshots == 2

\* keys in one answer of the daemon
MaxRespKeys == 2

\* iterations of the hashrate loop in one behaviour
MaxTicks == 4

\* lines of the log the reader has not read yet
MaxUnread == 1

\* No pure function and no HTTP request has been called.
CalcIdle ==
    /\ call = None
    /\ ret = None
    /\ before = None

(***************************************************************************)
(* StatsState                                                              *)
(***************************************************************************)
\* The keys of StatsState.state in the order __init__ inserts them; dict.update
\* keeps the position of an existing key, so json.dumps always emits this order.
FieldOrder ==
    << "time", "hashrate_hps", "display_hashrate_hps", "source", "difficulty",
       "height", "network_hps", "expected_seconds", "expected_human", "odds",
       "cpu_temp_c" >>

Fields == { FieldOrder[i] : i \in 1..Len(FieldOrder) }

\* StatsState.__init__: the initial dictionary.
InitState ==
    [ f \in Fields |->
        CASE f \in {"hashrate_hps", "display_hashrate_hps"} -> 0
          [] f = "source" -> "Mock"
          [] f = "odds"   -> << >>
          [] OTHER        -> None ]

NoOwner == "free"

\* Mutant: an acquire that never waits (no mutual exclusion).
LockFreeAlways == TRUE

\* threading.Lock: acquirable only while nobody holds it.
LockFree == lock = NoOwner

\* Mutant: leaving the with-block keeps the lock held.
UnlockKeep(t) == t

\* The owner of the lock after thread t leaves its with-block.
Unlock(t) == NoOwner

\* Mutant: update() replaces the dictionary, resetting the fields it was not given.
MergeReset(s, kw) == [ f \in Fields |-> IF f \in DOMAIN kw THEN kw[f] ELSE InitState[f] ]

\* dict.update(kw): the named fields take the new values, every other is kept.
Merge(s, kw) == [ f \in DOMAIN s |-> IF f \in DOMAIN kw THEN kw[f] ELSE s[f] ]

\* json.dumps(state).encode(): the key/value pairs in dictionary order.
Dumps(s) == [ i \in 1..Len(FieldOrder) |-> <<FieldOrder[i], s[FieldOrder[i]]>> ]

NoBytes == <<>>

(***************************************************************************)
(* Callers of STATS: updaters with disjoint field sets, and readers.       *)
(***************************************************************************)
Updaters == {"u1", "u2"}

Readers == {"r1", "r2"}

SThreads == Updaters \cup Readers

\* The UI loop calls STATS.update as well.
Callers == SThreads \cup {"ui"}

\* The fields each updater names in its calls (disjoint between updaters).
Owned(u) ==
    IF u = "u1" THEN {"hashrate_hps", "display_hashrate_hps"}
                ELSE {"difficulty", "height"}

OwnedFields == UNION { Owned(u) : u \in Updaters }

\* The fields that __init__ sets to None.
OptionalFields == Fields \ {"hashrate_hps", "display_hashrate_hps", "source", "odds"}

\* The k-th update() call writes k: as a float field k, as an optional
\* field Some(k).
FieldVal(f, k) == IF f \in OptionalFields THEN Some(k) ELSE k

\* The call number a field's value stands for (0: the constructor's value).
FieldVer(f, v) == IF f \in OptionalFields THEN (IF v = None THEN 0 ELSE v[1]) ELSE v

NoKw == << >>

\* A thread calls STATS.update(**kw) with a non-empty subset F of its fields.
UpdateCall(u, F) ==
    /\ spc[u] = "idle"
    /\ nupd < MaxUpdates
    /\ nupd' = nupd + 1
    /\ skw' = [skw EXCEPT ![u] = [f \in F |-> FieldVal(f, nupd + 1)]]
    /\ spc' = [spc EXCEPT ![u] = "acquire"]
    /\ UNCHANGED <<lock, state, utc, sres, nsnap, hist, retd, atStart>>
    /\ UNCHANGED <<adapterVars, appVars, calcVars, guardVars, uiVars>>

\* A thread calls STATS.snapshot().
SnapshotCall(r) ==
    /\ spc[r] = "idle"
    /\ nsnap < MaxSnapshots
    /\ nsnap' = nsnap + 1
    /\ atStart' = [atStart EXCEPT ![r] = retd]
    /\ spc' = [spc EXCEPT ![r] = "acquire"]
    /\ UNCHANGED <<lock, state, utc, skw, sres, nupd, hist, retd>>
    /\ UNCHANGED <<adapterVars, appVars, calcVars, guardVars, uiVars>>

\* `with self.lock:` entered.
LockAcquire(t) ==
    /\ spc[t] = "acquire"
    /\ LockFree
    /\ lock' = t
    /\ spc' = [spc EXCEPT ![t] = IF t \in Readers THEN "dump" ELSE "merge"]
    /\ UNCHANGED <<state, utc, skw, sres, nupd, nsnap, hist, retd, atStart>>
    /\ UNCHANGED <<adapterVars, appVars, calcVars, guardVars, uiVars>>

\* self.state.update(kw)
UpdateMerge(u) ==
    /\ spc[u] = "merge"
    /\ state' = Merge(state, skw[u])
    /\ spc' = [spc EXCEPT ![u] = "stamp"]
    /\ UNCHANGED <<lock, utc, skw, sres, nupd, nsnap, hist, retd, atStart>>
    /\ UNCHANGED <<adapterVars, appVars, calcVars, guardVars, uiVars>>

\* self.state["time"] = datetime.utcnow().isoformat()+"Z"
UpdateStamp(u) ==
    /\ spc[u] = "stamp"
    /\ utc' = utc + 1
    /\ state' = [state EXCEPT !["time"] = Some(utc + 1)]
    /\ spc' = [spc EXCEPT ![u] = "release"]
    /\ UNCHANGED <<lock, skw, sres, nupd, nsnap, hist, retd, atStart>>
    /\ UNCHANGED <<adapterVars, appVars, calcVars, guardVars, uiVars>>

\* update() leaves the with-block and returns.
UpdateReturn(u) ==
    /\ u \notin Readers
    /\ spc[u] = "release"
    /\ lock' = Unlock(u)
    /\ spc' = [spc EXCEPT ![u] = "idle"]
    /\ hist' = state
    /\ retd' = [ f \in OwnedFields |->
                   IF u \in Updaters /\ f \in DOMAIN skw[u]
                   THEN FieldVer(f, skw[u][f]) ELSE retd[f] ]
    /\ skw' = [skw EXCEPT ![u] = NoKw]
    /\ UNCHANGED <<state, utc, sres, nupd, nsnap, atStart>>
    /\ UNCHANGED <<adapterVars, appVars, calcVars, guardVars, uiVars>>

\* return json.dumps(self.state).encode(), evaluated inside the with-block.
SnapshotDump(r) ==
    /\ spc[r] = "dump"
    /\ sres' = [sres EXCEPT ![r] = Dumps(state)]
    /\ spc' = [spc EXCEPT ![r] = "release"]
    /\ UNCHANGED <<lock, state, utc, skw, nupd, nsnap, hist, retd, atStart>>
    /\ UNCHANGED <<adapterVars, appVars, calcVars, guardVars, uiVars>>

\* snapshot() leaves the with-block and returns the bytes.
SnapshotReturn(r) ==
    /\ r \in Readers
    /\ spc[r] = "release"
    /\ lock' = Unlock(r)
    /\ spc' = [spc EXCEPT ![r] = "idle"]
    /\ sres' = [sres EXCEPT ![r] = NoBytes]
    /\ atStart' = [atStart EXCEPT ![r] = [f \in OwnedFields |-> 0]]
    /\ UNCHANGED <<state, utc, skw, nupd, nsnap, hist, retd>>
    /\ UNCHANGED <<adapterVars, appVars, calcVars, guardVars, uiVars>>

StatsInit ==
    /\ lock = NoOwner
    /\ state = InitState
    /\ utc = 0
    /\ spc = [t \in Callers |-> "idle"]
    /\ skw = [u \in Callers \ Readers |-> NoKw]
    /\ sres = [r \in Readers |-> NoBytes]
    /\ nupd = 0
    /\ nsnap = 0
    /\ hist = InitState
    /\ retd = [f \in OwnedFields |-> 0]
    /\ atStart = [r \in Readers |-> [f \in OwnedFields |-> 0]]

(***************************************************************************)
(* The daemon API adapter                                                  *)
(***************************************************************************)
\* The rate keys get_bfgminer_hashrate_hps tries first, in its order.
PriorityKeys ==
    << "MHS av", "MHS 5s", "MHS 1m", "MHS 5m", "MHS 15m", "GHS av", "KHS 5s", "KHS av" >>

\* The keys an answer may hold: the rate keys and one that is no rate.
AllKeys == { PriorityKeys[i] : i \in 1..Len(PriorityKeys) } \cup {"KHS", "GHS", "Elapsed"}

\* A value of an answer: <<n>> is text (or a JSON number) that float() parses
\* to n, Unparsable is anything float() raises on ("abc", "", null, a list).
Unparsable == << >>

RespVals == { Unparsable, <<0 - 1>>, <<0>>, <<2>> }

RespMaps ==
    UNION { [K -> RespVals] : K \in { K \in SUBSET AllKeys : Cardinality(K) <= MaxRespKeys } }

\* What the socket yields: no connection (or a timeout), a brace-delimited JSON
\* object, braces that are no JSON around key=value text, or key=value text
\* (no key at all: an empty or unusable payload).
Payloads ==
    { [fmt |-> "refused", kv |-> << >>] }
        \cup { [fmt |-> f, kv |-> m] : f \in {"json", "badjson", "kv"}, m \in RespMaps }

\* query_cgminer_api: None on any exception; the parsed JSON object; else the
\* key=value pairs, or None when there is none.
query_cgminer_api(p) ==
    CASE p.fmt = "refused" -> None
      [] p.fmt = "json"    -> Some(p.kv)
      [] OTHER             -> IF DOMAIN p.kv = {} THEN None ELSE Some(p.kv)

\* key.startswith("MHS") / key.startswith("GHS") / else
Factor(key) ==
    CASE key \in {"MHS av", "MHS 5s", "MHS 1m", "MHS 5m", "MHS 15m"} -> 1000000
      [] key \in {"GHS av"} -> 1000000000
      [] OTHER -> 1000

Returned(hps, src) == [raised |-> FALSE, hps |-> hps, src |-> src]

\* An exception leaves the function: there is no (rate, label) pair.
Raised == [raised |-> TRUE, hps |-> 0, src |-> "exception"]

NoData == Returned(0, "BFGMiner API (no data)")

\* The for-loop over the priority keys from position i on: the pair of the first
\* key that is present and parses, None when the loop ends without a return.
RECURSIVE PriorityScan(_, _)
PriorityScan(m, i) ==
    IF i > Len(PriorityKeys) THEN None
    ELSE LET key == PriorityKeys[i] IN
         IF key \in DOMAIN m /\ m[key] # Unparsable
         THEN Some(Returned(m[key][1] * Factor(key), "BFGMiner API"))
         ELSE PriorityScan(m, i + 1)

\* The two statements after the for-loop: float() of a bare key is not guarded.
BareKeys(m) ==
    CASE "KHS" \in DOMAIN m ->
            IF m["KHS"] = Unparsable THEN Raised
            ELSE Returned(m["KHS"][1] * 1000, "BFGMiner API")
      [] "GHS" \in DOMAIN m ->
            IF m["GHS"] = Unparsable THEN Raised
            ELSE Returned(m["GHS"][1] * 1000000000, "BFGMiner API")
      [] OTHER -> NoData

\* get_bfgminer_hashrate_hps, given what query_cgminer_api returned.
get_bfgminer_hashrate_hps(resp) ==
    IF resp = None \/ DOMAIN resp[1] = {} THEN NoData
    ELSE LET first == PriorityScan(resp[1], 1) IN
         IF first # None THEN first[1] ELSE BareKeys(resp[1])

\* One call of get_bfgminer_hashrate_hps().
AdapterPoll ==
    /\ poll' = Some(get_bfgminer_hashrate_hps(query_cgminer_api(daemon)))
    /\ UNCHANGED <<daemon, statsVars, appVars, calcVars, guardVars, uiVars>>

\* Nothing is known to answer on the API port and nothing polls it.
AdapterIdle ==
    /\ daemon = [fmt |-> "refused", kv |-> << >>]
    /\ poll = None

(***************************************************************************)
(* TouchApp: configuration, tasks, construction                            *)
(***************************************************************************)
\* The tasks: the three loops started by TouchApp.__init__, the reader thread of
\* CpuMinerTail, and the main thread, which runs _ui_loop and stop().
Tasks == {"miner", "net", "sensors", "tail", "ui"}

\* The attributes of TouchApp and CpuMinerTail that are used without a lock.
Attrs ==
    { "graph_data", "miner_hps", "miner_src", "difficulty", "height", "net_hps",
      "cpu_temp", "_stop", "cpuminer.stop" }

\* Task t reads the attributes R and writes the attributes W.
Touch(t, R, W) ==
    [ a \in Attrs |->
        [ rd |-> IF a \in R THEN acc[a].rd \cup {t} ELSE acc[a].rd,
          wr |-> IF a \in W THEN acc[a].wr \cup {t} ELSE acc[a].wr ] ]

\* CONFIG with its defaults; requests says whether `import requests` worked.
\* Rates are in kH/s, graph_jitter_pct in percent.
DefaultConfig ==
    [ miner_mode |-> "auto", show_odds_when_zero |-> TRUE, mock_khs_base |-> 250,
      mock_khs_jitter |-> 25, graph_jitter_pct |-> 6, miner_refresh_s |-> 1,
      requests |-> TRUE ]

\* An endpoint, a file or a request that fails (an exception in the caller).
Fail == << >>

\* The locals of _ui_loop before a run has assigned them: disp_hps, eff_hps,
\* the difficulties read for odds_dict, et_seconds, and the keyword arguments
\* evaluated so far.
NoLocals ==
    [disp |-> 0, eff |-> 0, pd |-> << >>, et |-> None, hps |-> 0, src |-> "Mock",
     diff |-> None, height |-> None, nh |-> None]

\* TouchApp.__init__ with CONFIG = c: the attributes, and the tasks in `running`
\* started (the others are not scheduled in the specification at hand).
AppRunning(c, running, fetched) ==
    /\ cfg = c
    /\ pc = [ t \in Tasks |->
                CASE t \notin running -> "parked"
                  [] t = "tail" -> IF c.miner_mode = "cpuminer" THEN "test" ELSE "parked"
                  [] t = "ui" -> "body"
                  [] OTHER -> "test" ]
    /\ stopFlag = FALSE
    /\ acc = [a \in Attrs |-> [rd |-> {}, wr |-> {}]]
    /\ now = 0
    /\ nticks = 0
    /\ graph_data = << >>
    /\ inserted = << >>
    /\ miner_hps = 0
    /\ miner_src = "Mock"
    /\ difficulty = fetched
    /\ height = None
    /\ net_hps = IF fetched # None THEN <<[mul |-> fetched[1], pow2 |-> 32, div |-> 600]>>
                 ELSE None
    /\ lastFetch = None
    /\ goodD = fetched
    /\ goodH = None
    /\ cpu_temp = None
    /\ tailStop = FALSE
    /\ latest_hps = 0
    /\ tail_lock = "free"
    /\ tail_m = None
    /\ matched = None
    /\ unread = << >>
    /\ uil = NoLocals

\* TouchApp.__init__ has returned; the tasks in `running` are started.
AppConstructed(c, running) == AppRunning(c, running, None)

\* No endpoint, sensor or log file is there.
EnvAbsent ==
    /\ lag = 99
    /\ diffEp = Fail
    /\ heightEp = Fail
    /\ thermal = Fail
    /\ logExists = FALSE

AppIdle == AppConstructed(DefaultConfig, {}) /\ EnvAbsent

\* TouchApp.stop(), the WM_DELETE_WINDOW handler: it runs on the main thread, so
\* not inside a run of _ui_loop.
Stop ==
    /\ pc["ui"] \in {"wait", "done", "parked"}
    /\ ~stopFlag
    /\ stopFlag' = TRUE
    /\ acc' = Touch("ui", {}, {"_stop"})
    /\ UNCHANGED <<cfg, pc, minerVars, netVars, sensVars, tailVars, statsVars, adapterVars, calcVars, guardVars, uiVars>>

(***************************************************************************)
(* The network fetcher and the network loop                                *)
(***************************************************************************)
\* What the difficulty endpoint may answer: Fail (no answer in 5 s, an HTTP
\* error, text float() raises on) or <<d>>, text that parses to d.
DiffAnswers == { Fail, <<0 - 1>>, <<0>>, <<1>>, <<2>> }

\* What the height endpoint may answer: Fail, or text int() parses.
HeightAnswers == { Fail, <<1>>, <<2>> }

\* fetch_difficulty_and_height: (d, h, status) and, for the history, the
\* endpoints it queried.
fetch_difficulty_and_height(reqs, dEp, hEp) ==
    CASE ~reqs     -> [d |-> None, h |-> None, st |-> "requests missing", asked |-> {}]
      [] dEp = Fail -> [d |-> None, h |-> None, st |-> "difficulty err",
                        asked |-> {"difficulty"}]
      [] hEp = Fail -> [d |-> dEp, h |-> None, st |-> "height err",
                        asked |-> {"difficulty", "height"}]
      [] OTHER      -> [d |-> dEp, h |-> hEp, st |-> "OK",
                        asked |-> {"difficulty", "height"}]

\* net_hps_from_diff(d) = d * 2^32 / 600.0, kept as its factors.
net_hps_from_diff(d) == [mul |-> d, pow2 |-> 32, div |-> 600]

\* Mutant: the fetched value is stored whether or not it is None.
CacheAlways(old, new) == new

\* `if x is not None: self.attr = x`
Cache(old, new) == IF new # None THEN new ELSE old

\* `while not self._stop:` of a loop.
LoopTest(t) ==
    /\ pc[t] = "test"
    /\ pc' = [pc EXCEPT ![t] = IF stopFlag THEN "done" ELSE "body"]
    /\ acc' = Touch(t, {"_stop"}, {})

\* _network_loop: the loop test.
NetTest ==
    /\ LoopTest("net")
    /\ UNCHANGED <<cfg, stopFlag, minerVars, netVars, sensVars, tailVars, statsVars, adapterVars, calcVars, guardVars, uiVars>>

\* _network_loop: one iteration (fetch, store, sleep).
NetBody ==
    /\ pc["net"] = "body"
    /\ LET r == fetch_difficulty_and_height(cfg.requests, diffEp, heightEp) IN
       /\ difficulty' = Cache(difficulty, r.d)
       /\ net_hps' = IF r.d # None THEN Some(net_hps_from_diff(r.d[1])) ELSE net_hps
       /\ height' = Cache(height, r.h)
       /\ lastFetch' = Some([dEp |-> diffEp, hEp |-> heightEp, ret |-> r,
                             prevD |-> difficulty, prevH |-> height])
       /\ goodD' = IF "difficulty" \in r.asked /\ diffEp # Fail THEN diffEp ELSE goodD
       /\ goodH' = IF "height" \in r.asked /\ heightEp # Fail THEN heightEp ELSE goodH
       /\ acc' = Touch("net", {}, (IF r.d # None THEN {"difficulty", "net_hps"} ELSE {})
                                    \cup (IF r.h # None THEN {"height"} ELSE {}))
    /\ pc' = [pc EXCEPT !["net"] = "test"]
    /\ UNCHANGED <<cfg, stopFlag, diffEp, heightEp, minerVars, sensVars, tailVars,
                   statsVars, adapterVars, calcVars, guardVars, uiVars>>

\* The endpoints start, stop or change their answers.
EndpointsChange ==
    /\ \E d \in DiffAnswers, h \in HeightAnswers :
          /\ <<d, h>> # <<diffEp, heightEp>>
          /\ diffEp' = d
          /\ heightEp' = h
    /\ UNCHANGED <<ctlVars, minerVars, difficulty, height, net_hps, lastFetch, goodD, goodH,
                   sensVars, tailVars, statsVars, adapterVars, calcVars, guardVars, uiVars>>

(***************************************************************************)
(* The hashrate loop                                                       *)
(***************************************************************************)
Max0(x) == IF x > 0 THEN x ELSE 0

\* random.uniform(base-jit, base+jit): the two ends and the middle.
MockDraws(c) ==
    { c.mock_khs_base - c.mock_khs_jitter, c.mock_khs_base,
      c.mock_khs_base + c.mock_khs_jitter }

\* Step 1 of _miner_loop: the (hps, src) pairs the configured source can
\* yield now, or the exception that leaves get_bfgminer_hashrate_hps.
Measurements ==
    CASE cfg.miner_mode = "cpuminer" -> { Returned(latest_hps, "cpuminer") }
      [] cfg.miner_mode \in {"auto", "bfgminer"} ->
            { get_bfgminer_hashrate_hps(query_cgminer_api(daemon)) }
      [] OTHER -> { Returned(Max0(v) * 1000, "Mock") : v \in MockDraws(cfg) }

\* random.uniform(-pct, pct), in percent: the two ends and the middle.
JitterDraws(pct) == { 0 - pct, 0, pct }

\* _jitter(value, pct, prev) with the draw u; rates are whole H/s.
_jitter(value, pct, prev, u) ==
    IF value <= 0 \/ pct <= 0 THEN value
    ELSE LET j == (value * (100 + u)) \div 100
             k == IF prev # None THEN (70 * prev[1] + 30 * j) \div 100 ELSE j
         IN  Max0(k)

\* The else-branch of step 2: the fallback value, jittered and smoothed.
Fallback(value) ==
    LET prev == IF graph_data # << >> THEN Some(graph_data[Len(graph_data)][2]) ELSE None
    IN  { _jitter(value, cfg.graph_jitter_pct, prev, u) :
            u \in JitterDraws(cfg.graph_jitter_pct) }

\* Mutant: a measured rate is jittered and smoothed like the fallback value.
PlottedSmoothed(hps) ==
    Fallback(IF hps > 0 THEN hps
             ELSE IF cfg.show_odds_when_zero THEN cfg.mock_khs_base * 1000 ELSE 0)

\* Step 2 of _miner_loop: the values that may be plotted for a measured hps.
Plotted(hps) ==
    IF hps > 0 THEN { hps }
    ELSE Fallback(IF cfg.show_odds_when_zero THEN cfg.mock_khs_base * 1000 ELSE 0)

\* The width of the sliding window, in seconds.
Window == 300

AtOrAfter(cutoff, p) == p[1] >= cutoff

\* Mutant: a point exactly at the cutoff is dropped.
PruneStrict(g, cutoff) == SelectSeq(g, LAMBDA p : p[1] > cutoff)

\* [(t, v) for (t, v) in self.graph_data if t >= cutoff]
Prune(g, cutoff) == SelectSeq(g, LAMBDA p : AtOrAfter(cutoff, p))

\* What an iteration may take beyond its sleep (the poll, a stalled process).
Lags == {99, 199}

\* _miner_loop: the loop test.
MinerTest ==
    /\ LoopTest("miner")
    /\ UNCHANGED <<cfg, stopFlag, minerVars, netVars, sensVars, tailVars, statsVars, adapterVars, calcVars, guardVars, uiVars>>

\* _miner_loop: one iteration (measure, plot, append, prune, sleep). An
\* exception in the poll ends the thread.
MinerBody ==
    /\ pc["miner"] = "body"
    /\ nticks < MaxTicks
    /\ \E m \in Measurements :
          /\ poll' = IF cfg.miner_mode \in {"auto", "bfgminer"} THEN Some(m) ELSE poll
          /\ IF m.raised
             THEN /\ pc' = [pc EXCEPT !["miner"] = "crashed"]
                  /\ UNCHANGED <<acc, minerVars>>
             ELSE /\ miner_hps' = m.hps
                  /\ miner_src' = m.src
                  /\ \E g \in Plotted(m.hps) :
                        /\ graph_data' = Prune(Append(graph_data, <<now, g>>), now - Window)
                        /\ inserted' = Append(inserted, <<now, g>>)
                  /\ now' = now + cfg.miner_refresh_s + lag
                  /\ lag' = lag
                  /\ nticks' = nticks + 1
                  /\ acc' = Touch("miner", {"graph_data"},
                                   {"miner_hps", "miner_src", "graph_data"})
                  /\ pc' = [pc EXCEPT !["miner"] = "test"]
    /\ UNCHANGED <<cfg, stopFlag, daemon, netVars, sensVars, tailVars, statsVars, calcVars, guardVars, uiVars>>

\* The daemon answers of the scenarios: nothing listens, a rate that is not a
\* number, a rate, a rate below zero.
Refused == [fmt |-> "refused", kv |-> << >>]

BadRate == [fmt |-> "kv", kv |-> [KHS |-> Unparsable]]

GoodRate == [fmt |-> "kv", kv |-> [KHS |-> <<2>>]]

NegRate == [fmt |-> "kv", kv |-> [KHS |-> <<0 - 1>>]]

\* The daemon starts, stops or changes its answer.
DaemonChange ==
    /\ cfg.miner_mode \in {"auto", "bfgminer"}
    /\ \E d \in {Refused, BadRate, GoodRate, NegRate} \ {daemon} : daemon' = d
    /\ UNCHANGED <<poll, appVars, statsVars, calcVars, guardVars, uiVars>>

\* The daemon stops: nothing listens any more.
DaemonStops ==
    /\ daemon # Refused
    /\ daemon' = Refused
    /\ UNCHANGED <<poll, appVars, statsVars, calcVars, guardVars, uiVars>>

\* The machine becomes more or less loaded.
LagChange ==
    /\ \E l \in Lags \ {lag} : lag' = l
    /\ UNCHANGED <<now, nticks, graph_data, inserted, miner_hps, miner_src>>
    /\ UNCHANGED <<ctlVars, netVars, sensVars, tailVars, statsVars, adapterVars, calcVars, guardVars, uiVars>>

(***************************************************************************)
(* The sensor loop                                                         *)
(***************************************************************************)
\* read_cpu_temp_c: int(text)/1000.0, None on any exception.
read_cpu_temp_c(file) == IF file = Fail THEN None ELSE Some(file[1] \div 1000)

\* _sensors_loop: the loop test.
SensTest ==
    /\ LoopTest("sensors")
    /\ UNCHANGED <<cfg, stopFlag, minerVars, netVars, sensVars, tailVars, statsVars, adapterVars, calcVars, guardVars, uiVars>>

\* _sensors_loop: one iteration.
SensBody ==
    /\ pc["sensors"] = "body"
    /\ cpu_temp' = read_cpu_temp_c(thermal)
    /\ acc' = Touch("sensors", {}, {"cpu_temp"})
    /\ pc' = [pc EXCEPT !["sensors"] = "test"]
    /\ UNCHANGED <<cfg, stopFlag, thermal, minerVars, netVars, tailVars, statsVars, adapterVars, calcVars, guardVars, uiVars>>

(***************************************************************************)
(* CpuMinerTail: the reader thread                                         *)
(***************************************************************************)
\* Mutant: every unit is taken for kilo.
LineRateKilo(line) == line.val * 1000

\* The rate of a matched line in H/s: mega x 10^6, kilo x 10^3.
LineRate(line) ==
    line.val * (IF line.unit \in {"mhash/s", "mh/s"} THEN 1000000 ELSE 1000)

\* _run: `while not self.stop:` of the outer loop.
TailTest ==
    /\ pc["tail"] = "test"
    /\ pc' = [pc EXCEPT !["tail"] = IF tailStop THEN "done" ELSE "open"]
    /\ acc' = Touch("tail", {"cpuminer.stop"}, {})
    /\ UNCHANGED <<cfg, stopFlag, minerVars, netVars, sensVars, tailVars, statsVars, adapterVars, calcVars, guardVars, uiVars>>

\* Mutant: the log is read from the lines that were there at the open.
SeekStart(lines) == lines

\* f.seek(0, os.SEEK_END): the lines of the log left to read after it.
SeekEnd(lines) == << >>

\* _run: open the log and seek to its end; FileNotFoundError (or any other
\* exception) is followed by a sleep of 1 s and the outer loop test.
TailOpen ==
    /\ pc["tail"] = "open"
    /\ IF logExists
       THEN /\ unread' = SeekEnd(unread)
            /\ pc' = [pc EXCEPT !["tail"] = "itest"]
       ELSE /\ unread' = unread
            /\ pc' = [pc EXCEPT !["tail"] = "test"]
    /\ UNCHANGED <<cfg, stopFlag, acc, minerVars, netVars, sensVars, logExists, tailStop,
                   latest_hps, tail_lock, tail_m, matched, statsVars, adapterVars, calcVars, guardVars, uiVars>>

\* _run: `while not self.stop:` of the inner loop; leaving it closes the file
\* and reaches the outer loop test.
TailInnerTest ==
    /\ pc["tail"] = "itest"
    /\ pc' = [pc EXCEPT !["tail"] = IF tailStop THEN "test" ELSE "read"]
    /\ acc' = Touch("tail", {"cpuminer.stop"}, {})
    /\ UNCHANGED <<cfg, stopFlag, minerVars, netVars, sensVars, tailVars, statsVars, adapterVars, calcVars, guardVars, uiVars>>

\* _run: readline and what follows it, in one step (for the specifications in
\* which get_hps is one step as well). No line: sleep 0.5 s. A line that matches
\* sets latest_hps under the lock. A line whose number float() rejects, or one
\* that cannot be decoded, raises: sleep 1 s, then the outer loop test.
TailRead ==
    /\ pc["tail"] = "read"
    /\ IF unread = << >>
       THEN /\ pc' = [pc EXCEPT !["tail"] = "itest"]
            /\ UNCHANGED <<unread, latest_hps, matched>>
       ELSE LET line == Head(unread) IN
            /\ unread' = Tail(unread)
            /\ latest_hps' = IF line.kind = "rate" THEN LineRate(line) ELSE latest_hps
            /\ matched' = IF line.kind = "rate" THEN Some(line) ELSE matched
            /\ pc' = [pc EXCEPT !["tail"] =
                        IF line.kind \in {"badnum", "undecodable"} THEN "test" ELSE "itest"]
    /\ UNCHANGED <<cfg, stopFlag, acc, minerVars, netVars, sensVars, logExists, tailStop,
                   tail_lock, tail_m, statsVars, adapterVars, calcVars, guardVars, uiVars>>

\* _run: readline, the search and the conversion. No line: sleep 0.5 s. A line
\* that matches is kept for the assignment. A line whose number float()
\* rejects, or one that cannot be decoded, raises: sleep 1 s, then the outer loop
\* test.
TailReadLine ==
    /\ pc["tail"] = "read"
    /\ IF unread = << >>
       THEN /\ pc' = [pc EXCEPT !["tail"] = "itest"]
            /\ UNCHANGED <<unread, tail_m>>
       ELSE LET line == Head(unread) IN
            /\ unread' = Tail(unread)
            /\ tail_m' = IF line.kind = "rate" THEN Some(line) ELSE None
            /\ pc' = [pc EXCEPT !["tail"] =
                        CASE line.kind = "rate" -> "lock"
                          [] line.kind \in {"badnum", "undecodable"} -> "test"
                          [] OTHER -> "itest"]
    /\ UNCHANGED <<cfg, stopFlag, acc, minerVars, netVars, sensVars, logExists, tailStop,
                   latest_hps, tail_lock, matched, statsVars, adapterVars, calcVars, guardVars, uiVars>>

\* _run: `with self.lock:` entered.
TailLock ==
    /\ pc["tail"] = "lock"
    /\ tail_lock = NoOwner
    /\ tail_lock' = "tail"
    /\ pc' = [pc EXCEPT !["tail"] = "assign"]
    /\ UNCHANGED <<cfg, stopFlag, acc, minerVars, netVars, sensVars, logExists, unread,
                   tailStop, latest_hps, tail_m, matched, statsVars, adapterVars, calcVars, guardVars, uiVars>>

\* _run: self.latest_hps = hps, and the with-block is left.
TailAssign ==
    /\ pc["tail"] = "assign"
    /\ latest_hps' = LineRate(tail_m[1])
    /\ matched' = tail_m
    /\ tail_m' = None
    /\ tail_lock' = NoOwner
    /\ pc' = [pc EXCEPT !["tail"] = "itest"]
    /\ UNCHANGED <<cfg, stopFlag, acc, minerVars, netVars, sensVars, logExists, unread,
                   tailStop, statsVars, adapterVars, calcVars, guardVars, uiVars>>

\* The hashrate loop's thread calls get_hps().
GetHpsCall ==
    /\ call = None \/ ret # None
    /\ call' = Some([fn |-> "get_hps", args |-> << >>])
    /\ ret' = None
    /\ before' = None
    /\ UNCHANGED <<statsVars, adapterVars, appVars, guardVars, uiVars>>

\* get_hps: `with self.lock:` entered.
GetHpsLock ==
    /\ call # None /\ ret = None
    /\ tail_lock = NoOwner
    /\ tail_lock' = "miner"
    /\ UNCHANGED <<logExists, unread, tailStop, latest_hps, tail_m, matched>>
    /\ UNCHANGED <<ctlVars, minerVars, netVars, sensVars, statsVars, adapterVars, calcVars, guardVars, uiVars>>

\* get_hps: return self.latest_hps, and the with-block is left.
GetHpsReturn ==
    /\ tail_lock = "miner"
    /\ ret' = Some(latest_hps)
    /\ tail_lock' = NoOwner
    /\ UNCHANGED <<call, before>>
    /\ UNCHANGED <<logExists, unread, tailStop, latest_hps, tail_m, matched>>
    /\ UNCHANGED <<ctlVars, minerVars, netVars, sensVars, statsVars, adapterVars, guardVars, uiVars>>

\* Lines cpuminer may write: a rate in kilo or mega units, a line without a
\* rate, a rate float() rejects ("1.2.3 khash/s"), bytes that do not decode.
LogLines ==
    { [kind |-> "rate", val |-> 2, unit |-> "khash/s"],
      [kind |-> "rate", val |-> 3, unit |-> "mh/s"],
      [kind |-> "other", val |-> 0, unit |-> ""],
      [kind |-> "badnum", val |-> 0, unit |-> "khash/s"],
      [kind |-> "undecodable", val |-> 0, unit |-> ""] }

\* cpuminer writes a line, the reader having the log open or not.
LogAppend ==
    /\ logExists
    /\ pc["tail"] \in {"test", "open", "itest", "read", "lock", "assign"}
    /\ Len(unread) < MaxUnread
    /\ \E line \in LogLines : unread' = Append(unread, line)
    /\ UNCHANGED <<logExists, tailStop, latest_hps, tail_lock, tail_m, matched>>
    /\ UNCHANGED <<ctlVars, minerVars, netVars, sensVars, statsVars, adapterVars, calcVars, guardVars, uiVars>>

\* The log file is created or removed.
LogToggle ==
    /\ logExists' = ~logExists
    /\ UNCHANGED <<unread, tailStop, latest_hps, tail_lock, tail_m, matched>>
    /\ UNCHANGED <<ctlVars, minerVars, netVars, sensVars, statsVars, adapterVars, calcVars, guardVars, uiVars>>

(***************************************************************************)
(* The probability model                                                   *)
(***************************************************************************)
\* `if x:` for an optional number.
Truthy(x) == x # None /\ x[1] # 0

\* float("inf")
Inf == [inf |-> TRUE, mul |-> 0, pow2 |-> 0, div |-> 1]

\* The float mul * 2^pow2 / div, kept as its factors.
Finite(m, p, d) == [inf |-> FALSE, mul |-> m, pow2 |-> p, div |-> d]

\* Mutant: a rate of 0 is divided by.
ExpectedTimeZeroRate(hps, diff) ==
    IF hps < 0 \/ ~Truthy(diff) THEN Inf ELSE Finite(diff[1], 32, hps)

\* expected_time_s(hps, diff), diff being None or <<d>>.
expected_time_s(hps, diff) ==
    IF hps <= 0 \/ ~Truthy(diff) THEN Inf ELSE Finite(diff[1], 32, hps)

\* The 1e-6 of prob_in_window, in units of 10^-13.
LinearBelow == 10000000

\* 1.0 - math.exp(-lam) in units of 10^-13, for lam up to 4 * 10^-6: there it
\* is lam - lam^2 / 2 to less than a thousandth of a unit.
OneMinusExp(lam) == lam - ((lam \div 10000) * (lam \div 10000)) \div 200000

\* prob_in_window(hps, diff, seconds) in units of 10^-13, the window being
\* w * 2^32 * 10^-13 seconds, so that lam = seconds / t is w * hps / diff units.
prob_in_window(hps, diff, w) ==
    LET t == expected_time_s(hps, diff) IN
    IF t.inf \/ t.mul <= 0 THEN 0
    ELSE LET lam == (w * t.div) \div t.mul IN
         IF lam < LinearBelow THEN lam ELSE OneMinusExp(lam)

\* The arguments tried: rates, difficulties (None, 0 and a negative one among
\* them) and windows on both sides of the threshold.
HpsArgs == {0 - 1, 0, 1, 2}

DiffArgs == {None, <<0 - 1>>, <<0>>, <<1>>, <<2>>}

WindowArgs == {0, 2, 9999998, 10000000, 10000002, 20000000}

\* A call of fn with args returned r.
Called(fn, args, r) ==
    /\ call' = Some([fn |-> fn, args |-> args])
    /\ ret' = Some(r)
    /\ before' = IF call # None /\ call[1].fn = fn
                 THEN Some([fn |-> fn, args |-> call[1].args, ret |-> ret[1]])
                 ELSE None
    /\ UNCHANGED <<statsVars, adapterVars, appVars, guardVars, uiVars>>

CallExpectedTime ==
    \E hps \in HpsArgs, diff \in DiffArgs :
        Called("expected_time_s", <<hps, diff>>, expected_time_s(hps, diff))

CallProbInWindow ==
    \E hps \in HpsArgs, diff \in DiffArgs, w \in WindowArgs :
        Called("prob_in_window", <<hps, diff, w>>, prob_in_window(hps, diff, w))

(***************************************************************************)
(* human_duration                                                          *)
(***************************************************************************)
\* 365*86400, the seconds of a year.
YearSeconds == 31536000

\* A float argument. A finite one is q * YearSeconds + r + f / 10 with
\* 0 <= r < YearSeconds and 0 <= f < 10 (10,000 years of seconds are more than
\* an integer of the model holds); q is then seconds // (365*86400).
Num(q, r, f) == [kind |-> "num", q |-> q, r |-> r, f |-> f]

NonFinite(k) == [kind |-> k, q |-> 0, r |-> 0, f |-> 0]

\* The arguments tried: None, the non-finite floats, and durations whose whole
\* years lie on both sides of 0 and of 10,000 and whose remainders have from
\* none to four non-zero components, with and without a fraction of a second.
DurationArgs ==
    {None}
    \cup { Some(NonFinite(k)) : k \in {"inf", "-inf", "nan"} }
    \cup { Some(Num(q, r, f)) :
             q \in {0 - 1, 0, 1, 9999, 10000, 1234567},
             r \in {0, 1, 60, 3661, 86400, 90061, 31535999},
             f \in {0, 5} }

Digit == <<"0", "1", "2", "3", "4", "5", "6", "7", "8", "9">>

\* The decimal digits of n >= 0.
RECURSIVE Digits(_)
Digits(n) ==
    IF n < 10 THEN <<Digit[n + 1]>>
    ELSE Append(Digits(n \div 10), Digit[(n % 10) + 1])

\* f"{n}"
Str(n) == IF n < 0 THEN <<"-">> \o Digits(0 - n) ELSE Digits(n)

\* f"{n:,}".replace(",", ".") for n >= 0
RECURSIVE Grouped(_)
Grouped(n) ==
    IF n < 1000 THEN Digits(n)
    ELSE Grouped(n \div 1000)
         \o <<".", Digit[((n % 1000) \div 100) + 1], Digit[((n \div 10) % 10) + 1],
              Digit[(n % 10) + 1]>>

\* " ".join(parts)
RECURSIVE Join(_)
Join(parts) ==
    IF Len(parts) = 1 THEN parts[1]
    ELSE parts[1] \o <<" ">> \o Join(Tail(parts))

\* Mutant: a component is appended whatever the number of parts.
AppendPartNoCap(parts, n, unit) ==
    IF n # 0 THEN Append(parts, Str(n) \o <<unit>>) ELSE parts

\* if n and len(parts) < 3: parts.append(f"{n}<unit>")
AppendPart(parts, n, unit) ==
    IF n # 0 /\ Len(parts) < 3 THEN Append(parts, Str(n) \o <<unit>>) ELSE parts

\* "\u2014", the em dash, one character
Placeholder == <<"em dash">>

\* human_duration(seconds): the string returned, as its characters.
human_duration(x) ==
    IF x = None \/ (x[1].kind = "num" /\ x[1].q = 0 /\ x[1].r = 0 /\ x[1].f = 0)
       \/ x[1].kind # "num"
    THEN Placeholder
    ELSE
    LET years == x[1].q IN
    IF years >= 10000 THEN Grouped(years) \o <<" ", "y", "e", "a", "r", "s">>
    ELSE
    LET s1      == x[1].r
        days    == s1 \div 86400
        s2      == s1 - days * 86400
        hours   == s2 \div 3600
        s3      == s2 - hours * 3600
        minutes == s3 \div 60
        sec     == s3 - minutes * 60
        p1      == IF years # 0 THEN <<Str(years) \o <<"y">>>> ELSE << >>
        p2      == AppendPart(p1, days, "d")
        p3      == AppendPart(p2, hours, "h")
        p4      == AppendPart(p3, minutes, "m")
        p5      == AppendPart(p4, sec, "s")
    IN  IF p5 # << >> THEN Join(p5) ELSE <<"0", "s">>

CallHumanDuration ==
    \E x \in DurationArgs : Called("human_duration", <<x>>, human_duration(x))

(***************************************************************************)
(* The web handler                                                         *)
(***************************************************************************)
\* self.path, a string, as the sequence of its characters.
RootPath == <<"/">>

IndexPrefix == <<"/", "i", "n", "d", "e", "x">>

StatsPath == <<"/", "s", "t", "a", "t", "s", ".", "j", "s", "o", "n">>

\* str.startswith
StartsWith(s, prefix) ==
    /\ Len(s) >= Len(prefix)
    /\ SubSeq(s, 1, Len(prefix)) = prefix

\* The request paths tried: the two routes, paths that begin with "/index",
\* a route followed by a query string, a prefix of a route and another path.
Paths ==
    { RootPath,
      IndexPrefix,
      IndexPrefix \o <<".", "h", "t", "m", "l">>,
      IndexPrefix \o <<"f", "o", "o">>,
      StatsPath,
      StatsPath \o <<"?", "x">>,
      <<"/", "s", "t", "a", "t", "s">>,
      <<"/", "?", "x">>,
      <<"/", "x">> }

\* html.encode("utf-8"): the dashboard page.
Page == << "<!doctype html><meta charset='utf-8'><title>Pi Lottery Miner</title>" >>

HtmlType == "text/html; charset=utf-8"

JsonType == "application/json; charset=utf-8"

\* send_response, the send_header calls and wfile.write of one answer.
Response(status, ctype, body) ==
    [status |-> status, ctype |-> Some(ctype), length |-> Some(Len(body)), body |-> body]

\* send_response(404); end_headers(): no header of the handler's, no body.
NotFound == [status |-> 404, ctype |-> None, length |-> None, body |-> NoBytes]

\* Mutant: only "/" is the dashboard.
DoGetExact(path, data) ==
    IF path = RootPath THEN Response(200, HtmlType, Page)
    ELSE IF path = StatsPath THEN Response(200, JsonType, data)
    ELSE NotFound

\* WebHandler.do_GET for self.path = path, data being what STATS.snapshot()
\* returns when the handler calls it.
do_GET(path, data) ==
    IF path = RootPath \/ StartsWith(path, IndexPrefix) THEN Response(200, HtmlType, Page)
    ELSE IF path = StatsPath THEN Response(200, JsonType, data)
    ELSE NotFound

\* The server thread handles one GET. STATS.snapshot() is called for
\* "/stats.json" only: it takes the lock, dumps the state and releases the lock.
CallGet ==
    \E path \in Paths :
        /\ path = StatsPath => LockFree
        /\ Called("do_GET", <<path>>, do_GET(path, Dumps(state)))

(***************************************************************************)
(* The UI loop                                                             *)
(***************************************************************************)
\* _effective_hps_for_odds, the rate.
EffectiveHps ==
    IF miner_hps > 0 THEN miner_hps
    ELSE IF cfg.show_odds_when_zero THEN cfg.mock_khs_base * 1000 ELSE 0

OddsWindows == [one_day |-> 86400, one_year |-> 365 * 86400, ten_years |-> 10 * 365 * 86400]

\* The arguments of the STATS.update call of _ui_loop. The formatted strings are
\* kept as the value they format.
UiKwargs ==
    LET disp == IF graph_data # << >> THEN graph_data[Len(graph_data)][2] ELSE miner_hps
        eff  == EffectiveHps
        ok   == Truthy(difficulty) /\ eff > 0
        et   == IF ok THEN Some(expected_time_s(eff, difficulty)) ELSE None
    IN  [ hashrate_hps |-> miner_hps,
          display_hashrate_hps |-> disp,
          source |-> miner_src,
          difficulty |-> difficulty,
          height |-> height,
          network_hps |-> IF Truthy(difficulty) THEN Some(net_hps_from_diff(difficulty[1]))
                          ELSE None,
          expected_seconds |-> et,
          expected_human |-> IF et # None THEN Some([human_duration |-> et[1]]) ELSE None,
          odds |-> IF ok
                   THEN [ k \in DOMAIN OddsWindows |->
                            [prob_in_window |-> <<eff, difficulty[1], OddsWindows[k]>>] ]
                   ELSE << >>,
          cpu_temp_c |-> cpu_temp ]

\* _ui_loop up to its call of STATS.update.
UiBody ==
    /\ pc["ui"] = "body"
    /\ spc["ui"] = "idle"
    /\ nupd < MaxUpdates
    /\ nupd' = nupd + 1
    /\ skw' = [skw EXCEPT !["ui"] = UiKwargs]
    /\ spc' = [spc EXCEPT !["ui"] = "acquire"]
    /\ pc' = [pc EXCEPT !["ui"] = "update"]
    /\ acc' = Touch("ui", {"graph_data", "miner_hps", "miner_src", "difficulty", "height",
                           "cpu_temp"}, {})
    /\ UNCHANGED <<cfg, stopFlag, minerVars, netVars, sensVars, tailVars, adapterVars, calcVars, guardVars, uiVars>>
    /\ UNCHANGED <<lock, state, utc, sres, nsnap, hist, retd, atStart>>

\* _ui_loop after STATS.update returned: `if not self._stop: self.root.after(...)`.
UiResched ==
    /\ pc["ui"] = "update"
    /\ spc["ui"] = "idle"
    /\ pc' = [pc EXCEPT !["ui"] = IF stopFlag THEN "done" ELSE "wait"]
    /\ acc' = Touch("ui", {"_stop"}, {})
    /\ UNCHANGED <<cfg, stopFlag, minerVars, netVars, sensVars, tailVars, statsVars, adapterVars, calcVars, guardVars, uiVars>>

\* The timer set by root.after fires: the next run of _ui_loop.
UiTimer ==
    /\ pc["ui"] = "wait"
    /\ pc' = [pc EXCEPT !["ui"] = "body"]
    /\ UNCHANGED <<cfg, stopFlag, acc, minerVars, netVars, sensVars, tailVars, statsVars,
                   adapterVars, calcVars, guardVars, uiVars>>

\* ---- _ui_loop, one step for each read of an attribute another task writes ----
\* A step of the run from position `from` to position `to` that reads the
\* attributes `reads` and leaves the locals l.
UiStep(from, to, reads, l) ==
    /\ pc["ui"] = from
    /\ pc' = [pc EXCEPT !["ui"] = to]
    /\ uil' = l
    /\ acc' = Touch("ui", reads, {})
    /\ UNCHANGED <<cfg, stopFlag, minerVars, netVars, sensVars, tailVars, statsVars,
                   adapterVars, calcVars, guardVars>>

\* disp_hps = self.graph_data[-1][1] if self.graph_data else self.miner_hps
UiDisp ==
    UiStep("body", "eff", {"graph_data", "miner_hps"},
           [NoLocals EXCEPT !.disp = IF graph_data # << >>
                                     THEN graph_data[Len(graph_data)][2] ELSE miner_hps])

\* Mutant: the fallback rate is the one the window shows.
UiEffTestWindow ==
    UiStep("eff", IF miner_hps > 0 THEN "eff2" ELSE "odds", {"miner_hps"},
           [uil EXCEPT !.eff = IF cfg.show_odds_when_zero THEN uil.disp ELSE 0])

\* _effective_hps_for_odds: `if self.miner_hps>0`, and the fallback.
UiEffTest ==
    UiStep("eff", IF miner_hps > 0 THEN "eff2" ELSE "odds", {"miner_hps"},
           [uil EXCEPT !.eff = IF cfg.show_odds_when_zero THEN cfg.mock_khs_base * 1000 ELSE 0])

\* _effective_hps_for_odds: `return self.miner_hps, self.miner_src`
UiEffRead ==
    UiStep("eff2", "odds", {"miner_hps", "miner_src"}, [uil EXCEPT !.eff = miner_hps])

\* `if self.difficulty and eff_hps>0:` before the odds; the expected time of the
\* label, read next, is shown but not published.
UiOddsTest ==
    UiStep("odds", IF Truthy(difficulty) /\ uil.eff > 0 THEN "prob" ELSE "et",
           {"difficulty"}, uil)

\* p=prob_in_window(eff_hps, self.difficulty, sec), for one window after the other.
UiProb ==
    UiStep("prob", IF Len(uil.pd) = 2 THEN "et" ELSE "prob", {"difficulty"},
           [uil EXCEPT !.pd = Append(uil.pd, difficulty)])

\* et_seconds: `(self.difficulty and eff_hps>0)`
UiEtTest ==
    UiStep("et", IF Truthy(difficulty) /\ uil.eff > 0 THEN "et2" ELSE "kw",
           {"difficulty"}, uil)

\* et_seconds = expected_time_s(eff_hps, self.difficulty)
UiEtRead ==
    UiStep("et2", "kw", {"difficulty"},
           [uil EXCEPT !.et = Some(expected_time_s(uil.eff, difficulty))])

\* hashrate_hps=self.miner_hps, source=self.miner_src
UiKwRate ==
    UiStep("kw", "kwdiff", {"miner_hps", "miner_src"},
           [uil EXCEPT !.hps = miner_hps, !.src = miner_src])

\* difficulty=self.difficulty, height=self.height
UiKwDiff ==
    UiStep("kwdiff", "nh", {"difficulty", "height"},
           [uil EXCEPT !.diff = difficulty, !.height = height])

\* network_hps: `if self.difficulty`
UiNhTest ==
    UiStep("nh", IF Truthy(difficulty) THEN "nh2" ELSE "call", {"difficulty"}, uil)

\* network_hps=net_hps_from_diff(self.difficulty)
UiNhRead ==
    UiStep("nh2", "call", {"difficulty"},
           [uil EXCEPT !.nh = Some(net_hps_from_diff(difficulty[1]))])

\* The keyword arguments of STATS.update, from the locals.
UiLocalKwargs ==
    [ hashrate_hps |-> uil.hps,
      display_hashrate_hps |-> uil.disp,
      source |-> uil.src,
      difficulty |-> uil.diff,
      height |-> uil.height,
      network_hps |-> uil.nh,
      expected_seconds |-> uil.et,
      expected_human |-> IF uil.et # None THEN Some([human_duration |-> uil.et[1]]) ELSE None,
      odds |-> IF Len(uil.pd) = 3
               THEN [ k \in DOMAIN OddsWindows |->
                        [prob_in_window |->
                           <<uil.eff,
                             uil.pd[CASE k = "one_day" -> 1 [] k = "one_year" -> 2 [] OTHER -> 3],
                             OddsWindows[k]>>] ]
               ELSE << >>,
      cpu_temp_c |-> cpu_temp ]

\* cpu_temp_c=self.cpu_temp, and STATS.update is called.
UiCall ==
    /\ pc["ui"] = "call"
    /\ spc["ui"] = "idle"
    /\ nupd < MaxUpdates
    /\ nupd' = nupd + 1
    /\ skw' = [skw EXCEPT !["ui"] = UiLocalKwargs]
    /\ spc' = [spc EXCEPT !["ui"] = "acquire"]
    /\ pc' = [pc EXCEPT !["ui"] = "update"]
    /\ acc' = Touch("ui", {"cpu_temp"}, {})
    /\ uil' = NoLocals
    /\ UNCHANGED <<cfg, stopFlag, minerVars, netVars, sensVars, tailVars, adapterVars,
                   calcVars, guardVars>>
    /\ UNCHANGED <<lock, state, utc, sres, nsnap, hist, retd, atStart>>

\* The difficulty endpoint answers with the next difficulty.
Retarget ==
    /\ diffEp # Fail
    /\ diffEp[1] < 2
    /\ diffEp' = Some(diffEp[1] + 1)
    /\ UNCHANGED <<ctlVars, minerVars, heightEp, difficulty, height, net_hps, lastFetch,
                   goodD, goodH, sensVars, tailVars, statsVars, adapterVars, calcVars,
                   guardVars, uiVars>>

(***************************************************************************)
(* screen_power_therm_guard (src/screen_power_therm_guard.py)              *)
(***************************************************************************)
GuardThreads == {"touch", "temp"}

\* The defaults of parse_args (idle_secs in half seconds), on a system with an
\* input device and a backlight.
DefaultArgs ==
    [idle_secs |-> 600, mode |-> "off", grace_reads |-> 2, input |-> TRUE, backlight |-> TRUE]

\* main has constructed the two threads with the arguments a; the threads in
\* `running` and main (when `withMain`) are about to run, the others are left out.
GuardStarted(a, running, withMain) ==
    /\ gcfg = a
    /\ gpc = [t \in GuardThreads \cup {"main"} |->
                IF t = "main" THEN (IF withMain THEN "wait" ELSE "parked")
                ELSE IF t \notin running THEN "parked"
                ELSE IF t = "touch" THEN "find" ELSE "test"]
    /\ stop_flag = [t \in GuardThreads |-> FALSE]
    /\ consecutive_hot = 0
    /\ polls = << >>
    /\ poweroffs = 0
    /\ gnow = 0
    /\ pending = FALSE
    /\ last_activity = 0
    /\ blanked = FALSE
    /\ dimmed = FALSE
    /\ backlight = "on"
    /\ touchAt = [arrived |-> None, seen |-> None]
    /\ idleActs = << >>

\* The guard program is not run.
GuardIdle == GuardStarted(DefaultArgs, {}, FALSE)

\* A daemon thread runs until the process exits.
Running(t) == gpc["main"] # "exited"

\* ---- TempGuardThread ----
\* DEFAULT_TEMP_THRESHOLD, in degrees
Thresh == 75

\* temperature polls in one behaviour
MaxPolls == 4

\* get_cpu_temp_c(): None, or a temperature below, at or above the threshold.
Readings == { None, <<Thresh - 1>>, <<Thresh>>, <<Thresh + 1>> }

\* run: `while not self.stop_flag.is_set():`
TempTest ==
    /\ Running("temp")
    /\ gpc["temp"] = "test"
    /\ gpc' = [gpc EXCEPT !["temp"] = IF stop_flag["temp"] THEN "done" ELSE "poll"]
    /\ UNCHANGED <<gcfg, stop_flag, tempVars, touchVars>>
    /\ UNCHANGED <<statsVars, adapterVars, appVars, calcVars, uiVars>>

\* run: one poll of the temperature and what follows it up to the wait; a
\* poweroff is followed by the return.
TempPoll ==
    /\ Running("temp")
    /\ gpc["temp"] = "poll"
    /\ Len(polls) < MaxPolls
    /\ \E t \in Readings :
        /\ polls' = Append(polls, t)
        /\ IF t # None
           THEN IF t[1] > Thresh
                THEN /\ consecutive_hot' = consecutive_hot + 1
                     /\ IF consecutive_hot + 1 >= gcfg.grace_reads
                        THEN /\ poweroffs' = poweroffs + 1
                             /\ gpc' = [gpc EXCEPT !["temp"] = "done"]
                        ELSE /\ poweroffs' = poweroffs
                             /\ gpc' = [gpc EXCEPT !["temp"] = "wait"]
                ELSE /\ consecutive_hot' = 0
                     /\ poweroffs' = poweroffs
                     /\ gpc' = [gpc EXCEPT !["temp"] = "wait"]
           ELSE /\ UNCHANGED <<consecutive_hot, poweroffs>>
                /\ gpc' = [gpc EXCEPT !["temp"] = "wait"]
    /\ UNCHANGED <<gcfg, stop_flag, touchVars>>
    /\ UNCHANGED <<statsVars, adapterVars, appVars, calcVars, uiVars>>

\* run: the wait of check_interval seconds in sleeps of 0.1 s; it ends early,
\* with the return, when the stop flag is seen set.
TempWait ==
    /\ Running("temp")
    /\ gpc["temp"] = "wait"
    /\ gpc' = [gpc EXCEPT !["temp"] = IF stop_flag["temp"] THEN "done" ELSE "test"]
    /\ UNCHANGED <<gcfg, stop_flag, tempVars, touchVars>>
    /\ UNCHANGED <<statsVars, adapterVars, appVars, calcVars, uiVars>>

\* ---- main ----
\* Mutant: a thread that has returned still counts as alive.
AliveAlways(t) == TRUE

\* Thread.is_alive()
Alive(t) == gpc[t] # "done"

\* main: `while t1.is_alive() and t2.is_alive(): time.sleep(1)`
MainWait ==
    /\ gpc["main"] = "wait"
    /\ gpc' = [gpc EXCEPT !["main"] =
                 IF Alive("touch") /\ Alive("temp") THEN "wait" ELSE "finally"]
    /\ UNCHANGED <<gcfg, stop_flag, tempVars, touchVars>>
    /\ UNCHANGED <<statsVars, adapterVars, appVars, calcVars, uiVars>>

\* main: KeyboardInterrupt during the wait.
MainInterrupt ==
    /\ gpc["main"] = "wait"
    /\ gpc' = [gpc EXCEPT !["main"] = "finally"]
    /\ UNCHANGED <<gcfg, stop_flag, tempVars, touchVars>>
    /\ UNCHANGED <<statsVars, adapterVars, appVars, calcVars, uiVars>>

\* main: t1.stop_flag.set(); t2.stop_flag.set()
MainFinally ==
    /\ gpc["main"] = "finally"
    /\ stop_flag' = [t \in GuardThreads |-> TRUE]
    /\ gpc' = [gpc EXCEPT !["main"] = "stopped"]
    /\ UNCHANGED <<gcfg, tempVars, touchVars>>
    /\ UNCHANGED <<statsVars, adapterVars, appVars, calcVars, uiVars>>

\* main returns and the process exits.
MainExit ==
    /\ gpc["main"] = "stopped"
    /\ gpc' = [gpc EXCEPT !["main"] = "exited"]
    /\ UNCHANGED <<gcfg, stop_flag, tempVars, touchVars>>
    /\ UNCHANGED <<statsVars, adapterVars, appVars, calcVars, uiVars>>

\* ---- TouchIdleThread ----
\* the clock stops at this many half seconds
MaxTime == 5

\* Mutant: the idle time counts as reached one half second early.
IdleReachedEarly(idle, secs) == idle + 1 >= secs

\* `if idle >= self.idle_secs:`
IdleReached(idle, secs) == idle >= secs

Act(name) == [act |-> name, at |-> gnow]

\* run: find_touch_event and find_backlight_path; without an input device or a
\* backlight the thread returns. Otherwise the device is opened and
\* last_activity is the time of the start.
TouchFind ==
    /\ Running("touch")
    /\ gpc["touch"] = "find"
    /\ IF gcfg.input /\ gcfg.backlight
       THEN /\ gpc' = [gpc EXCEPT !["touch"] = "test"]
            /\ last_activity' = gnow
       ELSE /\ gpc' = [gpc EXCEPT !["touch"] = "done"]
            /\ last_activity' = last_activity
    /\ UNCHANGED <<gcfg, stop_flag, tempVars, gnow, pending, blanked, dimmed, backlight,
                   touchAt, idleActs>>
    /\ UNCHANGED <<statsVars, adapterVars, appVars, calcVars, uiVars>>

\* run: `while not self.stop_flag.is_set():`; leaving the loop closes the device.
TouchTest ==
    /\ Running("touch")
    /\ gpc["touch"] = "test"
    /\ gpc' = [gpc EXCEPT !["touch"] = IF stop_flag["touch"] THEN "done" ELSE "poll"]
    /\ UNCHANGED <<gcfg, stop_flag, tempVars, touchVars>>
    /\ UNCHANGED <<statsVars, adapterVars, appVars, calcVars, uiVars>>

\* run: one iteration. poller.poll returns the pending events, or nothing
\* after its timeout; events are read and wake the screen; then the idle time
\* is tested and the screen blanked or dimmed.
TouchBody ==
    /\ Running("touch")
    /\ gpc["touch"] = "poll"
    /\ LET events == pending
           la     == IF events THEN gnow ELSE last_activity
           wake   == events /\ (blanked \/ dimmed)
           b1     == IF wake THEN FALSE ELSE blanked
           d1     == IF wake THEN FALSE ELSE dimmed
           acts1  == IF wake THEN Append(idleActs, Act("on")) ELSE idleActs
           light1 == IF wake THEN "on" ELSE backlight
           idle   == gnow - la
           off    == IdleReached(idle, gcfg.idle_secs) /\ gcfg.mode = "off" /\ ~b1
           dim    == IdleReached(idle, gcfg.idle_secs) /\ gcfg.mode # "off" /\ ~d1
       IN  /\ pending' = FALSE
           /\ last_activity' = la
           /\ touchAt' = IF events THEN [touchAt EXCEPT !.seen = Some(gnow)] ELSE touchAt
           /\ blanked' = IF off THEN TRUE ELSE IF dim THEN FALSE ELSE b1
           /\ dimmed' = IF dim THEN TRUE ELSE IF off THEN FALSE ELSE d1
           /\ backlight' = IF off THEN "off" ELSE IF dim THEN "dim" ELSE light1
           /\ idleActs' = IF off THEN Append(acts1, Act("off"))
                          ELSE IF dim THEN Append(acts1, Act("dim")) ELSE acts1
    /\ gpc' = [gpc EXCEPT !["touch"] = "test"]
    /\ UNCHANGED <<gcfg, stop_flag, tempVars, gnow>>
    /\ UNCHANGED <<statsVars, adapterVars, appVars, calcVars, uiVars>>

\* The screen is touched: the input device becomes readable.
TouchEvent ==
    /\ gcfg.input
    /\ pending' = TRUE
    /\ touchAt' = [touchAt EXCEPT !.arrived = Some(gnow)]
    /\ UNCHANGED <<gnow, last_activity, blanked, dimmed, backlight, idleActs>>
    /\ UNCHANGED <<guardCtl, tempVars>>
    /\ UNCHANGED <<statsVars, adapterVars, appVars, calcVars, uiVars>>

\* Half a second passes.
GuardTick ==
    /\ gnow < MaxTime
    /\ gnow' = gnow + 1
    /\ UNCHANGED <<pending, last_activity, blanked, dimmed, backlight, touchAt, idleActs>>
    /\ UNCHANGED <<guardCtl, tempVars>>
    /\ UNCHANGED <<statsVars, adapterVars, appVars, calcVars, uiVars>>

\* --idle-secs of one and of two half seconds, both modes.
TouchArgs ==
    { [DefaultArgs EXCEPT !.idle_secs = i, !.mode = m] : i \in {1, 2}, m \in {"off", "dim"} }

InitTouch ==
    /\ StatsInit
    /\ AdapterIdle
    /\ AppIdle
    /\ CalcIdle
    /\ \E a \in TouchArgs : GuardStarted(a, {"touch"}, TRUE)

NextTouch ==
    \/ TouchFind
    \/ TouchTest
    \/ TouchBody
    \/ TouchEvent
    \/ GuardTick
    \/ MainWait
    \/ MainInterrupt
    \/ MainFinally
    \/ MainExit

\* The touch-idle thread and main, against touches and passing time.
SpecTouch == InitTouch /\ [][NextTouch]_vars

GraceReads == {1, 2, 3}

InitTemp ==
    /\ StatsInit
    /\ AdapterIdle
    /\ AppIdle
    /\ CalcIdle
    /\ \E g \in GraceReads :
         GuardStarted([DefaultArgs EXCEPT !.grace_reads = g], {"temp"}, TRUE)

NextTemp ==
    \/ TempTest
    \/ TempPoll
    \/ TempWait
    \/ MainWait
    \/ MainInterrupt
    \/ MainFinally
    \/ MainExit

\* The temperature guard and main, for every sequence of temperature polls.
SpecTemp == InitTemp /\ [][NextTemp]_vars

\* Systems with and without an input device and a backlight.
GuardArgs ==
    { [DefaultArgs EXCEPT !.input = i, !.backlight = b] : i \in BOOLEAN, b \in BOOLEAN }

InitGuard ==
    /\ StatsInit
    /\ AdapterIdle
    /\ AppIdle
    /\ CalcIdle
    /\ \E a \in GuardArgs : GuardStarted(a, {"touch", "temp"}, TRUE)

\* The steps of main that no outside event is needed for.
MainStep ==
    \/ MainWait
    \/ MainFinally
    \/ MainExit

NextGuard ==
    \/ TouchFind
    \/ TouchTest
    \/ TouchBody
    \/ TempTest
    \/ TempPoll
    \/ TempWait
    \/ MainWait
    \/ MainInterrupt
    \/ MainFinally
    \/ MainExit

\* main and its two threads, nobody touching the screen.
SpecGuard == InitGuard /\ [][NextGuard]_vars

\* The same, main and the touch-idle thread being scheduled again and again.
FairGuard == SpecGuard /\ WF_vars(MainStep) /\ WF_vars(TouchFind)

(***************************************************************************)
(* Specifications of the application                                       *)
(***************************************************************************)
InitAdapter ==
    /\ StatsInit
    /\ CalcIdle
    /\ GuardIdle
    /\ daemon \in Payloads
    /\ poll = None
    /\ AppIdle

NextAdapter == AdapterPoll

\* Polls of the daemon API, for every answer of the daemon.
SpecAdapter == InitAdapter /\ [][NextAdapter]_vars

InitNet ==
    /\ StatsInit
    /\ CalcIdle
    /\ GuardIdle
    /\ AdapterIdle
    /\ \E reqs \in BOOLEAN : AppConstructed([DefaultConfig EXCEPT !.requests = reqs], {"net"})
    /\ diffEp \in DiffAnswers
    /\ heightEp \in HeightAnswers
    /\ lag = 99
    /\ thermal = Fail
    /\ logExists = FALSE

NextNet ==
    \/ NetTest
    \/ NetBody
    \/ EndpointsChange
    \/ Stop

\* The network loop alone, against endpoints that change their answers.
SpecNet == InitNet /\ [][NextNet]_vars

\* A configuration without randomness in the plotted value.
Steady(mode) == [DefaultConfig EXCEPT !.miner_mode = mode, !.mock_khs_jitter = 0,
                                      !.graph_jitter_pct = 0]

InitMiner ==
    /\ StatsInit
    /\ CalcIdle
    /\ GuardIdle
    /\ poll = None
    /\ \E mode \in {"mock", "auto"}, pct \in {0, 6} :
          AppConstructed([DefaultConfig EXCEPT !.miner_mode = mode, !.graph_jitter_pct = pct],
                         {"miner"})
    /\ daemon \in {Refused, BadRate, GoodRate}
    /\ lag \in Lags
    /\ diffEp = Fail
    /\ heightEp = Fail
    /\ thermal = Fail
    /\ logExists = FALSE

NextMiner ==
    \/ MinerTest
    \/ MinerBody
    \/ LagChange
    \/ Stop

\* The hashrate loop alone: mock and daemon sources, with and without jitter.
SpecMiner == InitMiner /\ [][NextMiner]_vars

\* The settings of the hashrate loop: the daemon API with the fallback shown or
\* not and jittered or not, the mock source, the log of cpuminer.
PlotSettings ==
    { [DefaultConfig EXCEPT !.show_odds_when_zero = sh, !.graph_jitter_pct = pct] :
        sh \in BOOLEAN, pct \in {0, 6} }
      \cup { [DefaultConfig EXCEPT !.miner_mode = "mock"],
             [DefaultConfig EXCEPT !.miner_mode = "cpuminer", !.graph_jitter_pct = 0] }

InitPlot ==
    /\ StatsInit
    /\ CalcIdle
    /\ GuardIdle
    /\ poll = None
    /\ \E c \in PlotSettings : AppConstructed(c, {"miner", "tail"})
    /\ daemon \in {Refused, GoodRate}
    /\ lag = 99
    /\ diffEp = Fail
    /\ heightEp = Fail
    /\ thermal = Fail
    /\ logExists = (cfg.miner_mode = "cpuminer")

NextPlot ==
    \/ MinerTest
    \/ MinerBody
    \/ DaemonChange
    \/ TailTest
    \/ TailOpen
    \/ TailInnerTest
    \/ TailRead
    \/ LogAppend
    \/ Stop

\* The hashrate loop with each of its sources (and the reader thread of the log
\* source), against a daemon and a log that change.
SpecPlot == InitPlot /\ [][NextPlot]_vars

InitTail ==
    /\ StatsInit
    /\ CalcIdle
    /\ GuardIdle
    /\ AdapterIdle
    /\ AppConstructed(Steady("cpuminer"), {"tail"})
    /\ lag = 99
    /\ diffEp = Fail
    /\ heightEp = Fail
    /\ thermal = Fail
    /\ logExists \in BOOLEAN

NextTail ==
    \/ TailTest
    \/ TailOpen
    \/ TailInnerTest
    \/ TailReadLine
    \/ TailLock
    \/ TailAssign
    \/ GetHpsCall
    \/ GetHpsLock
    \/ GetHpsReturn
    \/ LogAppend
    \/ LogToggle
    \/ Stop

InitCalc ==
    /\ StatsInit
    /\ CalcIdle
    /\ GuardIdle
    /\ AdapterIdle
    /\ AppIdle

NextCalc ==
    \/ CallExpectedTime
    \/ CallProbInWindow
    \/ CallHumanDuration

\* Calls of the pure functions of the probability model and of the formatters.
SpecCalc == InitCalc /\ [][NextCalc]_vars

InitWeb ==
    /\ StatsInit
    /\ CalcIdle
    /\ GuardIdle
    /\ AdapterIdle
    /\ AppIdle

NextWeb ==
    \/ \E F \in (SUBSET Owned("u1")) \ {{}} : UpdateCall("u1", F)
    \/ LockAcquire("u1")
    \/ UpdateMerge("u1")
    \/ UpdateStamp("u1")
    \/ UpdateReturn("u1")
    \/ CallGet

\* The HTTP server thread answering GET requests while a thread of the
\* application updates STATS.
SpecWeb == InitWeb /\ [][NextWeb]_vars

\* The reader thread of CpuMinerTail alone, against a log that comes, goes and
\* grows.
SpecTail == InitTail /\ [][NextTail]_vars

\* The whole application in three settings: cpuminer with everything there, the
\* daemon API with a rate that is not a number and nothing else there, the
\* daemon API with a rate and everything there.
InitUi ==
    /\ StatsInit
    /\ CalcIdle
    /\ GuardIdle
    /\ AdapterIdle
    /\ AppConstructed(DefaultConfig, {"net", "ui"})
    /\ diffEp = <<1>>
    /\ heightEp = <<1>>
    /\ lag = 99
    /\ thermal = Fail
    /\ logExists = FALSE

NextUi ==
    \/ UiDisp
    \/ UiEffTest
    \/ UiOddsTest
    \/ UiProb
    \/ UiEtTest
    \/ UiEtRead
    \/ UiKwRate
    \/ UiKwDiff
    \/ UiNhTest
    \/ UiNhRead
    \/ UiCall
    \/ LockAcquire("ui")
    \/ UpdateMerge("ui")
    \/ UpdateStamp("ui")
    \/ UpdateReturn("ui")
    \/ UiResched
    \/ UiTimer
    \/ NetTest
    \/ NetBody
    \/ Retarget
    \/ Stop

\* The UI loop, read by read, beside the network loop, the endpoints answering
\* with positive difficulties only.
SpecUi == InitUi /\ [][NextUi]_vars

\* CONFIG with the daemon API as the source and a display jitter of 6 %, odds
\* shown and not shown when the rate is 0.
OddsSettings ==
    { [DefaultConfig EXCEPT !.miner_mode = "auto", !.mock_khs_jitter = 0,
                            !.graph_jitter_pct = 6, !.show_odds_when_zero = z] :
        z \in BOOLEAN }

InitOdds ==
    /\ StatsInit
    /\ CalcIdle
    /\ GuardIdle
    /\ poll = None
    /\ \E c \in OddsSettings : AppRunning(c, {"miner", "ui"}, <<2>>)
    /\ daemon = GoodRate
    /\ diffEp = <<2>>
    /\ heightEp = Fail
    /\ lag = 99
    /\ thermal = Fail
    /\ logExists = FALSE

NextOdds ==
    \/ MinerTest
    \/ MinerBody
    \/ DaemonStops
    \/ UiDisp
    \/ UiEffTest
    \/ UiEffRead
    \/ UiOddsTest
    \/ UiProb
    \/ UiEtTest
    \/ UiEtRead
    \/ UiKwRate
    \/ UiKwDiff
    \/ UiNhTest
    \/ UiNhRead
    \/ UiCall
    \/ LockAcquire("ui")
    \/ UpdateMerge("ui")
    \/ UpdateStamp("ui")
    \/ UpdateReturn("ui")
    \/ UiResched
    \/ UiTimer

\* The UI loop, read by read, beside the hashrate loop and the network loop,
\* the daemon starting and stopping to answer.
SpecOdds == InitOdds /\ [][NextOdds]_vars

InitApp ==
    /\ StatsInit
    /\ CalcIdle
    /\ GuardIdle
    /\ poll = None
    /\ \E sc \in { <<"cpuminer", Refused, TRUE>>, <<"auto", BadRate, FALSE>>,
                   <<"bfgminer", GoodRate, TRUE>> } :
          /\ AppConstructed(Steady(sc[1]), Tasks)
          /\ daemon = sc[2]
          /\ lag = 99
          /\ diffEp = IF sc[3] THEN <<2>> ELSE Fail
          /\ heightEp = IF sc[3] THEN <<1>> ELSE Fail
          /\ thermal = IF sc[3] THEN <<45000>> ELSE Fail
          /\ logExists = sc[3]

NextApp ==
    \/ MinerTest
    \/ MinerBody
    \/ NetTest
    \/ NetBody
    \/ SensTest
    \/ SensBody
    \/ TailTest
    \/ TailOpen
    \/ TailInnerTest
    \/ TailRead
    \/ UiBody
    \/ LockAcquire("ui")
    \/ UpdateMerge("ui")
    \/ UpdateStamp("ui")
    \/ UpdateReturn("ui")
    \/ UiResched
    \/ UiTimer
    \/ Stop

\* All tasks of the application, and stop().
SpecApp == InitApp /\ [][NextApp]_vars

(***************************************************************************)
(* Specifications of StatsState                                            *)
(***************************************************************************)
\* The steps a thread takes once it is inside a call.
StatsStep(t) ==
    \/ LockAcquire(t)
    \/ (t \in Updaters /\ UpdateMerge(t))
    \/ (t \in Updaters /\ UpdateStamp(t))
    \/ UpdateReturn(t)
    \/ (t \in Readers /\ SnapshotDump(t))
    \/ SnapshotReturn(t)

InitStats == StatsInit /\ AdapterIdle /\ AppIdle /\ CalcIdle /\ GuardIdle

NextStats ==
    \/ \E u \in Updaters : \E F \in (SUBSET Owned(u)) \ {{}} : UpdateCall(u, F)
    \/ \E r \in Readers : SnapshotCall(r)
    \/ \E t \in SThreads : LockAcquire(t)
    \/ \E u \in Updaters : UpdateMerge(u)
    \/ \E u \in Updaters : UpdateStamp(u)
    \/ \E u \in Updaters : UpdateReturn(u)
    \/ \E r \in Readers : SnapshotDump(r)
    \/ \E r \in Readers : SnapshotReturn(r)

\* Concurrent update() and snapshot() calls on one StatsState.
SpecStats == InitStats /\ [][NextStats]_vars

\* The same, every thread inside a call being scheduled again.
FairStats == SpecStats /\ \A t \in SThreads : WF_vars(StatsStep(t))

(***************************************************************************)
(* C1: the bytes a snapshot() returns encode the state as it stood after a *)
(* whole number of completed update() calls: when the bytes have been      *)
(* computed they are the encoding of the state the latest update() that    *)
(* returned left (the constructor's state when none has), never of a state *)
(* in which an update is half applied (fields merged, time not stamped).   *)
(***************************************************************************)
C1_SnapshotAtomic ==
    \A r \in Readers : spc[r] = "release" => sres[r] = Dumps(hist)

\* A snapshot computed between two updates, while the second update() and the
\* other snapshot() wait for the lock.
C1_Witness ==
    \E r \in Readers :
        /\ spc[r] = "release"
        /\ sres[r][1][2] = Some(1)
        /\ \E u \in Updaters : spc[u] = "acquire"
        /\ \E q \in Readers : spc[q] = "acquire"

(***************************************************************************)
(* C2: a snapshot() called after an update() of a field returned holds,    *)
(* for that field, the value of that update or of a later one (updaters    *)
(* with disjoint field sets, any number of concurrent readers).            *)
(***************************************************************************)
SnapVer(r, f) ==
    LET i == CHOOSE j \in 1..Len(FieldOrder) : FieldOrder[j] = f
    IN  FieldVer(f, sres[r][i][2])

C2_FieldFreshness ==
    \A r \in Readers :
        spc[r] = "release" => \A f \in OwnedFields : SnapVer(r, f) >= atStart[r][f]

\* A snapshot called after an update of a field had returned, which holds the
\* value of a later update of that field.
C2_Witness ==
    \E r \in Readers :
        /\ spc[r] = "release"
        /\ atStart[r]["hashrate_hps"] >= 1
        /\ SnapVer(r, "hashrate_hps") > atStart[r]["hashrate_hps"]

(***************************************************************************)
(* C3: no deadlock: the lock is held only by a thread inside a with-block, *)
(* a call that returned has released it, and every started call returns.   *)
(***************************************************************************)
LockHeldInsideCall ==
    /\ lock # NoOwner => spc[lock] \in {"merge", "stamp", "dump", "release"}
    /\ \A t \in Callers :
          spc[t] \in {"merge", "stamp", "dump", "release"} => lock = t

C3_NoDeadlock ==
    /\ []LockHeldInsideCall
    /\ \A t \in SThreads : (spc[t] # "idle") ~> (spc[t] = "idle")

\* Three threads wait for the lock while the fourth holds it.
C3_Witness ==
    /\ lock # NoOwner
    /\ Cardinality({t \in SThreads : spc[t] = "acquire"}) = 3

(***************************************************************************)
(* C4: the adapter poll never raises: for every outcome of the daemon      *)
(* query it returns a (rate, label) pair, and (0, "BFGMiner API (no        *)
(* data)") whenever no rate can be extracted from the answer.              *)
(***************************************************************************)
\* Some rate key of the answer holds a number.
RateExtractable ==
    LET resp == query_cgminer_api(daemon) IN
    /\ resp # None
    /\ \E k \in DOMAIN resp[1] : k \in AllKeys \ {"Elapsed"} /\ resp[1][k] # Unparsable

C4_PollNeverRaises ==
    poll # None =>
        /\ ~poll[1].raised
        /\ (~RateExtractable => poll[1] = NoData)

(***************************************************************************)
(* C5: in one call of the fetcher a failure of the difficulty request does *)
(* not prevent the height request: the height endpoint is still queried,   *)
(* and when it answers the call returns (None, height, status).            *)
(***************************************************************************)
C5_HeightAfterDifficultyFailure ==
    (lastFetch # None /\ cfg.requests /\ lastFetch[1].dEp = Fail) =>
        /\ "height" \in lastFetch[1].ret.asked
        /\ lastFetch[1].hEp # Fail =>
              (lastFetch[1].ret.d = None /\ lastFetch[1].ret.h = lastFetch[1].hEp)

(***************************************************************************)
(* C6: stale-over-absent: the cached difficulty is the value of the most   *)
(* recent fetch whose difficulty request succeeded, the cached height the  *)
(* most recent height fetched successfully (None when there was none); a   *)
(* field whose fetch failed keeps its cached value, and no cached value    *)
(* goes back to None.                                                      *)
(***************************************************************************)
C6_StaleOverAbsent ==
    /\ difficulty = goodD
    /\ height = goodH
    /\ lastFetch # None =>
          LET f == lastFetch[1] IN
          /\ (f.ret.d = None => difficulty = f.prevD)
          /\ (f.ret.h = None => height = f.prevH)
          /\ (f.prevD # None => difficulty # None)
          /\ (f.prevH # None => height # None)

\* Both values are cached, the latest fetch got the difficulty but not the
\* height, and the stale height is still there.
C6_Witness ==
    /\ lastFetch # None
    /\ lastFetch[1].ret.d # None
    /\ lastFetch[1].ret.h = None
    /\ lastFetch[1].prevD # None
    /\ lastFetch[1].prevD # difficulty
    /\ height # None

(***************************************************************************)
(* C7: no producer failure is fatal: a producer loop (hashrate poll,       *)
(* network fetch, sensor poll, log-tail reader) is never ended by a        *)
(* failure of its source, and it leaves its loop only after stop has been  *)
(* requested.                                                              *)
(***************************************************************************)
Producers == {"miner", "net", "sensors", "tail"}

C7_ProducersSurvive ==
    \A t \in Producers :
        /\ pc[t] # "crashed"
        /\ pc[t] = "done" => stopFlag

(***************************************************************************)
(* C8: cooperative cancellation: once stop() has been called, a task that  *)
(* reaches the test of its loop (for the UI tick: the test before it       *)
(* re-arms its timer) leaves the loop; it starts no further iteration.     *)
(***************************************************************************)
AtLoopTest(t) ==
    IF t = "ui" THEN pc[t] = "update" /\ spc[t] = "idle" ELSE pc[t] \in {"test", "itest"}

C8_StopObserved ==
    [][ \A t \in Tasks :
          (stopFlag /\ AtLoopTest(t) /\ pc'[t] # pc[t]) => pc'[t] = "done" ]_vars

(***************************************************************************)
(* C9: shared-resource policy: an attribute that is used without the       *)
(* snapshot lock or an adapter's lock and that a task writes is read and   *)
(* written by that task only.                                              *)
(***************************************************************************)
C9_SingleOwner ==
    \A a \in Attrs : \A w \in acc[a].wr : acc[a].rd \cup acc[a].wr \subseteq {w}

(***************************************************************************)
(* C10: sliding-window eviction: after every tick of the hashrate loop the *)
(* series ends with the point just inserted and holds, in insertion order, *)
(* exactly the inserted points whose timestamp is >= that point's          *)
(* timestamp - 300.                                                        *)
(***************************************************************************)
C10_SlidingWindow ==
    inserted # << >> =>
        LET last == inserted[Len(inserted)] IN
        /\ graph_data # << >>
        /\ graph_data[Len(graph_data)] = last
        /\ graph_data = SelectSeq(inserted, LAMBDA p : p[1] >= last[1] - 300)

\* The inserts at t = 0, 100, 200, 400 have left the points at 100, 200, 400.
C10_Witness ==
    /\ Len(inserted) = 4
    /\ [i \in 1..4 |-> inserted[i][1]] = <<0, 100, 200, 400>>
    /\ [i \in 1..Len(graph_data) |-> graph_data[i][1]] = <<100, 200, 400>>

(***************************************************************************)
(* C11: on a tick in which the measured hashrate is > 0 the appended point *)
(* carries exactly the measured value, whatever the source and the earlier *)
(* points.                                                                 *)
(***************************************************************************)
C11_RawWhenPositive ==
    (inserted # << >> /\ miner_hps > 0) => inserted[Len(inserted)][2] = miner_hps

\* A measured rate is appended after a different value, with jitter configured.
C11_Witness ==
    /\ Len(inserted) >= 2
    /\ miner_hps > 0
    /\ cfg.graph_jitter_pct > 0
    /\ inserted[Len(inserted)][2] = miner_hps
    /\ inserted[Len(inserted) - 1][2] # miner_hps

(***************************************************************************)
(* C12: on a tick in which the measured hashrate is zero or unavailable    *)
(* the appended value is 0 when show-odds-when-zero is off; otherwise it   *)
(* is baseline * (1 + j) with |j| <= pct when the series was empty and     *)
(* 0.7 * previous value + 0.3 * baseline * (1 + j) when it was not (to the *)
(* whole H/s), for every configured pct and baseline.                      *)
(***************************************************************************)
C12_FallbackValue ==
    (inserted # << >> /\ miner_hps = 0) =>
        LET n    == Len(inserted)
            g    == inserted[n][2]
            base == cfg.mock_khs_base * 1000
            lo   == base * (100 - cfg.graph_jitter_pct)
            hi   == base * (100 + cfg.graph_jitter_pct)
        IN  IF ~cfg.show_odds_when_zero THEN g = 0
            ELSE IF n = 1 THEN 100 * g + 100 > lo /\ 100 * g <= hi
            ELSE LET prev == inserted[n - 1][2] IN
                 /\ 100 * g + 100 > 70 * prev + (30 * lo) \div 100
                 /\ 100 * g <= 70 * prev + (30 * hi) \div 100

(***************************************************************************)
(* C14: the hashrate a poll returns is >= 0 for every adapter variant and  *)
(* every input, so the hashrate held by the hashrate loop is never         *)
(* negative.                                                               *)
(***************************************************************************)
C14_RateNonNegative ==
    /\ miner_hps >= 0
    /\ (poll # None /\ ~poll[1].raised) => poll[1].hps >= 0

(***************************************************************************)
(* C13: key priority: for every parsed response the poll returns the rate  *)
(* of the first key, in the order MHS av, MHS 5s, MHS 1m, MHS 5m, MHS 15m, *)
(* GHS av, KHS 5s, KHS av, KHS, GHS, that is present and whose value       *)
(* parses, scaled by 10^6 (MHS), 10^9 (GHS) or 10^3 (KHS).                 *)
(***************************************************************************)
KeyOrder ==
    << "MHS av", "MHS 5s", "MHS 1m", "MHS 5m", "MHS 15m", "GHS av", "KHS 5s", "KHS av",
       "KHS", "GHS" >>

KeyScale(i) == IF i <= 5 THEN 1000000 ELSE IF i \in {6, 10} THEN 1000000000 ELSE 1000

C13_KeyPriority ==
    LET resp == query_cgminer_api(daemon) IN
    (poll # None /\ resp # None) =>
        \A i \in 1..Len(KeyOrder) :
            ( /\ KeyOrder[i] \in DOMAIN resp[1]
              /\ resp[1][KeyOrder[i]] # Unparsable
              /\ \A j \in 1..(i - 1) :
                    KeyOrder[j] \in DOMAIN resp[1] => resp[1][KeyOrder[j]] = Unparsable )
            => poll[1] = [raised |-> FALSE, hps |-> resp[1][KeyOrder[i]][1] * KeyScale(i),
                          src |-> "BFGMiner API"]

(***************************************************************************)
(* C15: the cached difficulty is absent or a strictly positive number,     *)
(* whatever numeric text the difficulty endpoint returns.                  *)
(***************************************************************************)
C15_DifficultyPositive ==
    difficulty # None => difficulty[1] > 0

(***************************************************************************)
(* C16: expected_time_s(hps, diff) is +infinity whenever hps <= 0 or diff  *)
(* is absent and, for any other argument, diff * 2^32 / hps.               *)
(***************************************************************************)
C16_ExpectedTime ==
    (call # None /\ call[1].fn = "expected_time_s") =>
        LET hps  == call[1].args[1]
            diff == call[1].args[2]
        IN  ret[1] = IF hps <= 0 \/ diff = None
                     THEN [inf |-> TRUE, mul |-> 0, pow2 |-> 0, div |-> 1]
                     ELSE [inf |-> FALSE, mul |-> diff[1], pow2 |-> 32, div |-> hps]

\* C16 as amended: +infinity also when diff is 0.
C16_ExpectedTimeAmended ==
    (call # None /\ call[1].fn = "expected_time_s") =>
        LET hps  == call[1].args[1]
            diff == call[1].args[2]
        IN  ret[1] = IF hps <= 0 \/ diff = None \/ diff = <<0>>
                     THEN [inf |-> TRUE, mul |-> 0, pow2 |-> 0, div |-> 1]
                     ELSE [inf |-> FALSE, mul |-> diff[1], pow2 |-> 32, div |-> hps]

\* expected_time_s(0, d) for a positive d has returned +infinity.
C16_Witness ==
    /\ call # None
    /\ call[1].fn = "expected_time_s"
    /\ call[1].args = <<0, <<2>>>>
    /\ ret[1].inf

(***************************************************************************)
(* C17: for a fixed positive hashrate and difficulty prob_in_window is     *)
(* strictly increasing in the window, across the switch at lam = 1e-6 as   *)
(* well, and it is 0 for a window of 0.                                    *)
(***************************************************************************)
C17_ProbIncreasing ==
    (call # None /\ call[1].fn = "prob_in_window") =>
        LET a == call[1].args IN
        (a[1] > 0 /\ a[2] # None /\ a[2][1] > 0) =>
            /\ a[3] = 0 => ret[1] = 0
            /\ (before # None /\ before[1].args[1] = a[1] /\ before[1].args[2] = a[2]
                  /\ before[1].args[3] < a[3]) => before[1].ret < ret[1]

(***************************************************************************)
(* C18: GET /stats.json answers 200 with the current snapshot bytes as     *)
(* JSON, GET / answers 200 with the dashboard page, and a GET of every     *)
(* other path answers 404 with an empty body.                              *)
(***************************************************************************)
\* This step is a GET handled by the web handler.
GetStep ==
    /\ calcVars' # calcVars
    /\ call'[1].fn = "do_GET"

C18_Routing ==
    [][GetStep =>
        LET path == call'[1].args[1]
            r    == ret'[1]
        IN  IF path = StatsPath
            THEN r.status = 200 /\ r.ctype = Some(JsonType) /\ r.body = Dumps(state)
            ELSE IF path = RootPath
            THEN r.status = 200 /\ r.ctype = Some(HtmlType) /\ r.body = Page
            ELSE r.status = 404 /\ r.body = NoBytes]_vars

\* C18 as amended: a path that begins with "/index" is the dashboard too.
C18_RoutingAmended ==
    [][GetStep =>
        LET path == call'[1].args[1]
            r    == ret'[1]
        IN  IF path = StatsPath
            THEN r.status = 200 /\ r.ctype = Some(JsonType) /\ r.body = Dumps(state)
            ELSE IF path = RootPath \/ StartsWith(path, IndexPrefix)
            THEN r.status = 200 /\ r.ctype = Some(HtmlType) /\ r.body = Page
            ELSE r.status = 404 /\ r.body = NoBytes]_vars

\* GET /stats.json has answered with a snapshot taken after an update, GET /
\* before it with the page.
C18_Witness ==
    /\ call # None
    /\ call[1].fn = "do_GET"
    /\ call[1].args = <<StatsPath>>
    /\ ret[1].status = 200
    /\ ret[1].body = Dumps(state)
    /\ state.hashrate_hps > 0
    /\ before # None
    /\ before[1].args = <<RootPath>>
    /\ before[1].ret.body = Page

(***************************************************************************)
(* C19: human_duration yields the placeholder for 0, null and non-finite   *)
(* input; for at least 10,000 whole 365-day years only the '.'-grouped     *)
(* year count followed by " years"; otherwise the first (at most three)    *)
(* non-zero components of the y/d/h/m/s decomposition in that order, and   *)
(* "0s" when all components are zero.                                      *)
(***************************************************************************)
NonZeroPart(p) == p[1] # 0

NotDot(c) == c # "."

C19_HumanDuration ==
    (call # None /\ call[1].fn = "human_duration") =>
        LET x    == call[1].args[1]
            text == ret[1]
        IN
        IF x = None THEN text = <<"em dash">>
        ELSE IF x[1].kind # "num" \/ (x[1].q = 0 /\ x[1].r = 0 /\ x[1].f = 0)
        THEN text = <<"em dash">>
        ELSE IF x[1].q >= 10000
        THEN LET n == Len(text) - 6 IN
             /\ n >= 1
             /\ SubSeq(text, n + 1, n + 6) = <<" ", "y", "e", "a", "r", "s">>
             /\ SelectSeq(SubSeq(text, 1, n), NotDot) = Digits(x[1].q)
             /\ \A i \in 1..n : (text[i] = ".") <=> ((n - i + 1) % 4 = 0)
        ELSE LET r     == x[1].r
                 comps == << <<x[1].q, "y">>, <<r \div 86400, "d">>,
                             <<(r % 86400) \div 3600, "h">>, <<(r % 3600) \div 60, "m">>,
                             <<r % 60, "s">> >>
                 nz    == SelectSeq(comps, NonZeroPart)
                 shown == IF Len(nz) > 3 THEN SubSeq(nz, 1, 3) ELSE nz
             IN  IF nz = << >> THEN text = <<"0", "s">>
                 ELSE text = Join([i \in 1..Len(shown) |-> Str(shown[i][1]) \o <<shown[i][2]>>])

\* A duration of 1y 1d 1h 1m 1s has been rendered with its first three
\* components, after one of 1,234,567 years rendered as grouped years.
C19_Witness ==
    /\ call # None
    /\ call[1].fn = "human_duration"
    /\ call[1].args = <<Some(Num(1, 90061, 0))>>
    /\ ret[1] = <<"1", "y", " ", "1", "d", " ", "1", "h">>
    /\ before # None
    /\ before[1].args = <<Some(Num(1234567, 0, 0))>>
    /\ before[1].ret = <<"1", ".", "2", "3", "4", ".", "5", "6", "7", " ", "y", "e", "a", "r", "s">>

(***************************************************************************)
(* C20: get_hps() returns the rate of the most recent line the reader has  *)
(* matched, in Hz (mega x 10^6, kilo x 10^3), or 0 if none has matched;    *)
(* a line that does not match leaves the value unchanged; the reader holds *)
(* the adapter lock for the assignment only, so get_hps() never waits for  *)
(* a file read or a sleep of the reader.                                   *)
(***************************************************************************)
\* The rate a matched line states, in Hz.
Hz(line) ==
    CASE line.unit \in {"mhash/s", "mh/s"} -> line.val * 1000 * 1000
      [] line.unit \in {"khash/s", "kh/s"} -> line.val * 1000

C20_LatestRate ==
    [][/\ (call # None /\ ret = None /\ ret' # None) =>
              ret'[1] = IF matched = None THEN 0 ELSE Hz(matched[1])
       /\ (unread # << >> /\ unread' = Tail(unread) /\ Head(unread).kind # "rate") =>
              /\ latest_hps' = latest_hps
              /\ tail_m' = None
       /\ tail_lock' = "tail" => pc'["tail"] = "assign"
       /\ (call' # None /\ ret' = None /\ tail_lock' # NoOwner) =>
              tail_lock' = "miner" \/ pc'["tail"] = "assign"]_vars

\* get_hps() has returned 3 MH/s in Hz, the rate of the line matched last, the
\* reader being out of the assignment and a line without a rate being unread.
C20_Witness ==
    /\ call # None
    /\ call[1].fn = "get_hps"
    /\ ret = Some(3000000)
    /\ matched # None
    /\ matched[1].unit = "mh/s"
    /\ pc["tail"] = "read"
    /\ unread # << >>
    /\ Head(unread).kind = "other"

(***************************************************************************)
(* C21: the temperature guard issues the poweroff only when the most       *)
(* recent grace_reads polls each returned a value above the threshold; any *)
(* poll that is not a hot read breaks the run; after the poweroff the      *)
(* thread polls no more.                                                   *)
(***************************************************************************)
HotRead(t) == t # None /\ t[1] > Thresh

C21_ConsecutiveHot ==
    poweroffs > 0 =>
        /\ poweroffs = 1
        /\ gpc["temp"] = "done"
        /\ Len(polls) >= gcfg.grace_reads
        /\ \A i \in (Len(polls) - gcfg.grace_reads + 1)..Len(polls) : HotRead(polls[i])

(***************************************************************************)
(* C22: the touch-idle thread blanks (mode off) or dims (mode dim) the     *)
(* screen only after no touch event was seen for idle_secs, once per idle  *)
(* period; a touch read while the screen is blanked or dimmed turns the    *)
(* backlight on and clears both flags; blanked and dimmed are never both   *)
(* true, and while one is true no touch was read since the blanking.       *)
(***************************************************************************)
Darkens(a) == a.act \in {"off", "dim"}

C22_IdleBacklight ==
    /\ ~(blanked /\ dimmed)
    /\ \A i \in 1..Len(idleActs) :
         /\ Darkens(idleActs[i]) => idleActs[i].act = gcfg.mode
         /\ (i > 1 /\ Darkens(idleActs[i])) => ~Darkens(idleActs[i - 1])
    /\ IF idleActs # << >> /\ Darkens(idleActs[Len(idleActs)])
       THEN LET a == idleActs[Len(idleActs)] IN
            /\ blanked = (a.act = "off")
            /\ dimmed = (a.act = "dim")
            /\ backlight = a.act
            /\ touchAt.seen # None => touchAt.seen[1] < a.at
            /\ a.at - (IF touchAt.seen # None THEN touchAt.seen[1] ELSE 0) >= gcfg.idle_secs
            /\ touchAt.arrived # None =>
                 (touchAt.arrived[1] + gcfg.idle_secs > a.at => pending)
       ELSE /\ ~blanked
            /\ ~dimmed
            /\ backlight = "on"

\* The screen was blanked, woken by a touch and blanked again.
C22_Witness ==
    /\ Len(idleActs) = 3
    /\ idleActs[1].act = "off"
    /\ idleActs[2].act = "on"
    /\ idleActs[3].act = "off"
    /\ blanked
    /\ touchAt.seen # None

(***************************************************************************)
(* C29: once the touch-idle thread or the temperature guard is no longer   *)
(* alive, main leaves its wait loop, sets the stop flag of both threads    *)
(* and exits; so when the touch-idle thread returns at its start for want  *)
(* of an input device or a backlight, temperature monitoring ends too.     *)
(***************************************************************************)
MainGone ==
    /\ gpc["main"] = "exited"
    /\ \A t \in GuardThreads : stop_flag[t]

C29_MainFollowsThreads ==
    /\ (gpc["touch"] = "done" \/ gpc["temp"] = "done") ~> MainGone
    /\ ~(gcfg.input /\ gcfg.backlight) ~> MainGone
    /\ [][gpc["main"] = "exited" => polls' = polls]_vars

\* The system has no input device: the touch-idle thread has returned at its
\* start, and main has exited while the temperature guard, which had polled
\* once, was waiting for its next poll.
C29_Witness ==
    /\ ~gcfg.input
    /\ gpc["touch"] = "done"
    /\ last_activity = 0
    /\ MainGone
    /\ gpc["temp"] = "wait"
    /\ Len(polls) = 1
    /\ poweroffs = 0

(***************************************************************************)
(* C23: in every snapshot published by the UI loop network_hps is null     *)
(* when the snapshot's difficulty is null, and otherwise it is that        *)
(* difficulty * 2^32 / 600, also when the network loop replaces the cached *)
(* difficulty while the UI loop assembles the update.                      *)
(***************************************************************************)
C23_NetworkHpsOfDifficulty ==
    IF hist.difficulty = None
    THEN hist.network_hps = None
    ELSE hist.network_hps = Some([mul |-> hist.difficulty[1], pow2 |-> 32, div |-> 600])

(***************************************************************************)
(* C24: in every snapshot published by the UI loop expected_seconds is     *)
(* non-null exactly when odds holds the keys one_day, one_year and         *)
(* ten_years; otherwise expected_seconds and expected_human are null and   *)
(* odds is empty, under every interleaving with the other loops.           *)
(***************************************************************************)
C24_OddsWithExpectedTime ==
    IF hist.expected_seconds # None
    THEN DOMAIN hist.odds = {"one_day", "one_year", "ten_years"}
    ELSE /\ hist.expected_human = None
         /\ DOMAIN hist.odds = {}

(***************************************************************************)
(* C25: the sliding window never feeds the probability computation: the    *)
(* published expected_seconds, expected_human and odds are those of the    *)
(* measured hashrates, the fetched difficulty and the configuration,       *)
(* whatever the display jitter and the window hold; only                   *)
(* display_hashrate_hps follows the window.                                *)
(***************************************************************************)
\* The rates the daemon of SpecOdds is measured at, and the 0 before the
\* first measurement.
MeasuredRates ==
    {0} \cup { get_bfgminer_hashrate_hps(query_cgminer_api(d)).hps : d \in {Refused, GoodRate} }

\* The rates the measured hashrates and the configuration give the odds.
OddsRates ==
    { r \in MeasuredRates : r > 0 }
        \cup (IF cfg.show_odds_when_zero THEN { cfg.mock_khs_base * 1000 } ELSE {})

\* The UI loop has published a snapshot (it holds the fetched difficulty).
Published == hist.difficulty # None

C27_RateForOdds ==
    Published =>
        /\ hist.hashrate_hps \in MeasuredRates
        /\ hist.source # "Mock (odds fallback)"
        /\ IF hist.expected_seconds # None
           THEN /\ hist.expected_seconds[1].div \in OddsRates
                /\ DOMAIN hist.odds = DOMAIN OddsWindows
           ELSE /\ ~cfg.show_odds_when_zero
                /\ DOMAIN hist.odds = {}

(***************************************************************************)
(* C26: update() changes only the fields it is given and `time`: every     *)
(* other field keeps its value and none is removed, so every snapshot      *)
(* holds the eleven fields; `time` is null in a snapshot taken before the  *)
(* first update and non-null in one taken after an update has returned.    *)
(***************************************************************************)
\* update() of thread u returns in this step.
Returns(u) == spc[u] = "release" /\ spc'[u] = "idle"

\* The value of field f in the bytes of reader r.
SnapField(r, f) ==
    LET i == CHOOSE j \in 1..Len(FieldOrder) : FieldOrder[j] = f IN sres[r][i][2]

C26_UpdateFrame ==
    /\ [](DOMAIN state = Fields)
    /\ [][\A u \in Updaters :
              Returns(u) =>
                  /\ \A f \in Fields \ (DOMAIN skw[u] \cup {"time"}) : hist'[f] = hist[f]
                  /\ \A f \in DOMAIN skw[u] \ {"time"} : hist'[f] = skw[u][f]
                  /\ hist'["time"] # None]_vars
    /\ [](\A r \in Readers :
              spc[r] = "release" =>
                  /\ { sres[r][i][1] : i \in 1..Len(sres[r]) } = Fields
                  /\ Len(sres[r]) = 11
                  /\ utc = 0 => SnapField(r, "time") = None
                  /\ (\E f \in OwnedFields : atStart[r][f] >= 1) => SnapField(r, "time") # None)

\* A snapshot taken after both updates returned: it holds the rate of the first
\* update, which the second did not name, the difficulty of the second, and a
\* time stamp.
C26_Witness ==
    \E r \in Readers :
        /\ spc[r] = "release"
        /\ SnapField(r, "hashrate_hps") = 1
        /\ SnapField(r, "difficulty") = Some(2)
        /\ SnapField(r, "source") = "Mock"
        /\ SnapField(r, "time") = Some(2)
        /\ atStart[r]["difficulty"] = 2

(***************************************************************************)
(* C28: the log-tail reader survives an absent or unreadable file and any  *)
(* error while reading or parsing: it does not terminate, goes back to     *)
(* opening the file after its backoff, keeps the latest value, and starts  *)
(* at end-of-file on every open, so that lines written before an open      *)
(* never change the latest value.                                          *)
(***************************************************************************)
C28_TailSurvives ==
    /\ [](pc["tail"] \in {"test", "open", "itest", "read", "lock", "assign"})
    /\ [][/\ (pc["tail"] = "open" /\ ~logExists /\ pc'["tail"] # "open") =>
                 /\ pc'["tail"] = "test"
                 /\ latest_hps' = latest_hps
          /\ (pc["tail"] = "read" /\ pc'["tail"] # "read" /\ unread # << >>
                 /\ Head(unread).kind \in {"badnum", "undecodable"}) =>
                 /\ pc'["tail"] = "test"
                 /\ latest_hps' = latest_hps
          /\ (pc["tail"] = "open" /\ pc'["tail"] = "itest") =>
                 /\ unread' = << >>
                 /\ latest_hps' = latest_hps
          /\ latest_hps' # latest_hps =>
                 /\ pc["tail"] = "assign"
                 /\ tail_m # None
                 /\ latest_hps' = Hz(tail_m[1])]_vars

\* After a line that raised, the reader is about to open the log again; the log
\* holds a rate line written before this open, and the latest value is still the
\* 2 kH/s matched before the error.
C28_Witness ==
    /\ pc["tail"] = "open"
    /\ logExists
    /\ latest_hps = 2000
    /\ unread # << >>
    /\ Head(unread).kind = "rate"
    /\ Head(unread).unit = "mh/s"

====
